---- MODULE Spec2Model ----
(***************************************************************************)
(* Model of the typed call-argument / call-result codec of                 *)
(* pchain-client-cli (src/src/parser.rs).                                  *)
(*                                                                         *)
(* Representation                                                          *)
(*   - a Rust string is a sequence of one-character strings, so that the   *)
(*     space removal, the regular expression and the replacements of       *)
(*     sanitize_argument_type act on characters as the code does;          *)
(*   - a byte buffer is a sequence of integers 0..255;                     *)
(*   - the text of a string-valued argument_value is the JSON document it  *)
(*     spells (a tagged tuple, see "JSON documents"); a JSON integer is    *)
(*     its sign and its decimal digits, so values wider than the model     *)
(*     checker's integers (u64, u128) are written as the user writes them; *)
(*   - a Result is <<"Ok", v>> or <<"Err", kind, message>>, an Option is   *)
(*     <<"Some", v>> or <<"None">>.                                        *)
(***************************************************************************)
EXTENDS Integers, Sequences, FiniteSets, TLC

(***************************************************************************)
(* Results and options                                                     *)
(***************************************************************************)
Ok(v) == <<"Ok", v>>
Err(kind, msg) == <<"Err", kind, msg>>
Some(v) == <<"Some", v>>
None == <<"None">>
IsOk(r) == r[1] = "Ok"
IsErr(r) == r[1] = "Err"
IsSome(o) == o[1] = "Some"

\* The DisplayMsg variants the codec returns.
FailToParseCallArguments == "FailToParseCallArguments"
FailToSerializeCallArgument == "FailToSerializeCallArgument"
MissingFieldinJson == "MissingFieldinJson"

(***************************************************************************)
(* Strings as character sequences                                          *)
(***************************************************************************)
\* s starts with pat at index i (1-based).
MatchesAt(s, pat, i) ==
    /\ i + Len(pat) - 1 <= Len(s)
    /\ \A k \in 1..Len(pat) : s[i + k - 1] = pat[k]

\* Rust str::replace: every non-overlapping match of pat, left to right.
RECURSIVE ReplaceFrom(_, _, _, _)
ReplaceFrom(s, pat, to, i) ==
    IF i > Len(s) THEN <<>>
    ELSE IF MatchesAt(s, pat, i)
         THEN to \o ReplaceFrom(s, pat, to, i + Len(pat))
         ELSE <<s[i]>> \o ReplaceFrom(s, pat, to, i + 1)

Replace(s, pat, to) == ReplaceFrom(s, pat, to, 1)

\* The type-name keywords, spelled out.
kw_Vec == <<"V", "e", "c">>
kw_Option == <<"O", "p", "t", "i", "o", "n">>
kw_Array == <<"A", "r", "r", "a", "y">>
kw_Custom == <<"C", "u", "s", "t", "o", "m">>
kw_String == <<"S", "t", "r", "i", "n", "g">>
kw_bool == <<"b", "o", "o", "l">>
LT == <<"<">>
GT == <<">">>

\* The decimal spelling of the bit widths and array lengths in type names.
Spell(n) ==
    CASE n = 8 -> <<"8">>
      [] n = 16 -> <<"1", "6">>
      [] n = 32 -> <<"3", "2">>
      [] n = 64 -> <<"6", "4">>
      [] n = 128 -> <<"1", "2", "8">>

IntWidths == {8, 16, 32, 64, 128}
ArrayLens == {32, 64}

(***************************************************************************)
(* sanitize_argument_type                                                  *)
(***************************************************************************)
\* The strings matched by
\*   ^(Option<)?\[[ui](8|16|32|64|128);(32|64)](>)?$
re_option ==
    { pre \o <<"[", sg>> \o Spell(w) \o <<";">> \o Spell(n) \o <<"]">> \o post :
        pre \in {<<>>, kw_Option \o LT}, sg \in {"u", "i"},
        w \in IntWidths, n \in ArrayLens, post \in {<<>>, GT} }

\* sanitize_argument_type without line 353: the spaces stay in the string.
sanitize_keeping_spaces(data_type) ==
    LET dt_no_space == data_type
    IN  IF dt_no_space \in re_option
        THEN IF dt_no_space[1] = "O"
             THEN Replace(Replace(Replace(Replace(dt_no_space,
                      kw_Option \o LT, kw_Option),
                      <<"[">>, kw_Array \o LT),
                      <<";">>, <<",">>),
                      <<"]", ">">>, GT)
             ELSE Replace(Replace(Replace(dt_no_space,
                      <<"[">>, kw_Array \o LT),
                      <<";">>, <<",">>),
                      <<"]">>, GT)
        ELSE dt_no_space

sanitize_argument_type(data_type) ==
    LET dt_no_space == Replace(data_type, <<" ">>, <<>>)
    IN  IF dt_no_space \in re_option
        THEN IF dt_no_space[1] = "O"
             THEN Replace(Replace(Replace(Replace(dt_no_space,
                      kw_Option \o LT, kw_Option),
                      <<"[">>, kw_Array \o LT),
                      <<";">>, <<",">>),
                      <<"]", ">">>, GT)
             ELSE Replace(Replace(Replace(dt_no_space,
                      <<"[">>, kw_Array \o LT),
                      <<";">>, <<",">>),
                      <<"]">>, GT)
        ELSE dt_no_space

(***************************************************************************)
(* The type lists of the two macros                                        *)
(*                                                                         *)
(* A Rust type of the lists is a tagged tuple:                             *)
(*   <<"int", signed, bits>>, <<"bool">>, <<"String">>,                    *)
(*   <<"Vec", t>>, <<"Option", t>>, <<"Array", n>>, <<"OptionArray", n>>.  *)
(***************************************************************************)
T_int(signed, bits) == <<"int", signed, bits>>
T_bool == <<"bool">>
T_String == <<"String">>
T_Vec(t) == <<"Vec", t>>
T_Option(t) == <<"Option", t>>
T_Array(n) == <<"Array", n>>
T_OptionArray(n) == <<"OptionArray", n>>

\* i8 .. i128, u8 .. u128, bool, String
Primitives ==
    {T_int(sg, w) : sg \in BOOLEAN, w \in IntWidths} \cup {T_bool, T_String}

\* stringify!($t).replace(' ', "")
RECURSIVE TypeName(_)
TypeName(t) ==
    CASE t[1] = "int" -> <<(IF t[2] THEN "i" ELSE "u")>> \o Spell(t[3])
      [] t[1] = "bool" -> kw_bool
      [] t[1] = "String" -> kw_String
      [] t[1] = "Vec" -> kw_Vec \o LT \o TypeName(t[2]) \o GT
      [] t[1] = "Option" -> kw_Option \o LT \o TypeName(t[2]) \o GT
      [] t[1] = "Array" ->
            kw_Array \o LT \o <<"u", "8", ",">> \o Spell(t[2]) \o GT
      [] t[1] = "OptionArray" ->
            kw_Option \o kw_Array \o LT \o <<"u", "8", ",">> \o Spell(t[2]) \o GT

ArrayTypes ==
    {T_Array(n) : n \in ArrayLens} \cup {T_OptionArray(n) : n \in ArrayLens}

\* The list handed to serialize_call_args!.
serialize_call_args ==
    Primitives
    \cup {T_Vec(p) : p \in Primitives}
    \cup {T_Option(p) : p \in Primitives}
    \cup {T_Vec(T_Vec(p)) : p \in Primitives}
    \cup {T_Option(T_Vec(p)) : p \in Primitives}
    \cup {T_Vec(T_Option(p)) : p \in Primitives}
    \cup ArrayTypes

\* The lists handed to deserialize_call_args! and
\* deserialize_call_args_explicitly!.
deserialize_call_args ==
    Primitives
    \cup {T_Vec(p) : p \in Primitives}
    \cup {T_Option(p) : p \in Primitives}
    \cup {T_Vec(T_Option(p)) : p \in Primitives}
    \cup ArrayTypes

\* The names of the types, computed once.
TypeNames == [t \in serialize_call_args |-> TypeName(t)]

\* The first type of the list whose name is dt_no_space, if any (the names
\* of a list are pairwise different, so at most one matches).
MatchType(list, dt_no_space) ==
    LET hits == {t \in list : TypeNames[t] = dt_no_space}
    IN  IF hits = {} THEN None ELSE Some(CHOOSE t \in hits : TRUE)

(***************************************************************************)
(* Bytes and integers                                                      *)
(***************************************************************************)
\* Arithmetic on integers of any width, held as little-endian sequences of
\* 16-bit limbs (base 65536): nine limbs hold every u128 and one limb more.

Zeros(n) == [k \in 1..n |-> 0]

\* limbs * m + carry, as <<limbs of the same length, carry out>>.
RECURSIVE MulAdd(_, _, _)
MulAdd(limbs, m, carry) ==
    IF limbs = <<>> THEN <<<<>>, carry>>
    ELSE LET v == limbs[1] * m + carry
             rest == MulAdd(Tail(limbs), m, v \div 65536)
         IN  <<<<v % 65536>> \o rest[1], rest[2]>>

\* The number spelled by at most four decimal digits.
ChunkValue(c) ==
    CASE Len(c) = 0 -> 0
      [] Len(c) = 1 -> c[1]
      [] Len(c) = 2 -> c[1] * 10 + c[2]
      [] Len(c) = 3 -> c[1] * 100 + c[2] * 10 + c[3]
      [] Len(c) = 4 -> c[1] * 1000 + c[2] * 100 + c[3] * 10 + c[4]

\* The magnitude spelled by decimal digits, four digits at a time, as
\* <<nine limbs, overflowed>>.
RECURSIVE DigitsToLimbs(_)
DigitsToLimbs(digits) ==
    IF Len(digits) <= 4
    THEN <<<<ChunkValue(digits)>> \o Zeros(8), FALSE>>
    ELSE LET n == Len(digits)
             hi == DigitsToLimbs(SubSeq(digits, 1, n - 4))
         IN  IF hi[2] THEN hi
             ELSE LET r == MulAdd(hi[1], 10000,
                                  ChunkValue(SubSeq(digits, n - 3, n)))
                  IN  <<r[1], r[2] # 0>>

\* The little-endian bytes of limbs, and the limbs of an even number of
\* bytes.
LimbsToBytes(limbs) ==
    [k \in 1..(2 * Len(limbs)) |->
        IF k % 2 = 1 THEN limbs[(k + 1) \div 2] % 256
        ELSE limbs[k \div 2] \div 256]
BytesToLimbs(bytes) ==
    [k \in 1..((Len(bytes) + 1) \div 2) |->
        bytes[2 * k - 1] + (IF 2 * k <= Len(bytes) THEN 256 * bytes[2 * k] ELSE 0)]

\* The magnitude spelled by decimal digits, as <<bytes, overflowed>>.
DigitsToBytes(digits) ==
    LET conv == DigitsToLimbs(digits)
    IN  <<LimbsToBytes(conv[1]), conv[2]>>

\* limbs divided by 10000, as <<quotient, remainder>>; the division runs
\* from the most significant limb.
RECURSIVE DivChunk(_)
DivChunk(limbs) ==
    IF limbs = <<>> THEN <<<<>>, 0>>
    ELSE LET hi == DivChunk(Tail(limbs))
             v == hi[2] * 65536 + limbs[1]
         IN  <<<<v \div 10000>> \o hi[1], v % 10000>>

IsZero(xs) == \A k \in 1..Len(xs) : xs[k] = 0

\* The decimal digits of a natural number below 10000, and the same padded
\* to four digits.
SmallDigits(n) ==
    IF n < 10 THEN <<n>>
    ELSE IF n < 100 THEN <<n \div 10, n % 10>>
    ELSE IF n < 1000 THEN <<n \div 100, (n \div 10) % 10, n % 10>>
    ELSE <<n \div 1000, (n \div 100) % 10, (n \div 10) % 10, n % 10>>
FourDigits(n) == <<n \div 1000, (n \div 100) % 10, (n \div 10) % 10, n % 10>>

RECURSIVE LimbsToDigits(_)
LimbsToDigits(limbs) ==
    LET qr == DivChunk(limbs)
    IN  IF IsZero(qr[1]) THEN SmallDigits(qr[2])
        ELSE LimbsToDigits(qr[1]) \o FourDigits(qr[2])

\* The decimal digits of an unsigned little-endian integer.
BytesToDigits(bytes) == LimbsToDigits(BytesToLimbs(bytes))

\* Two's complement negation at the width of bytes.
Negate(bytes) ==
    LET inv == [k \in 1..Len(bytes) |-> 255 - bytes[k]]
        \* the first byte that is not 255 takes the carry
        stop == IF \E k \in 1..Len(inv) : inv[k] # 255
                THEN CHOOSE k \in 1..Len(inv) :
                        inv[k] # 255 /\ \A i \in 1..(k - 1) : inv[i] = 255
                ELSE Len(inv) + 1
    IN  [k \in 1..Len(bytes) |->
            IF k < stop THEN 0 ELSE IF k = stop THEN inv[k] + 1 ELSE inv[k]]

\* u32::to_le_bytes of a small natural number.
LeBytes(n, width) ==
    [k \in 1..width |->
        CASE k = 1 -> n % 256
          [] k = 2 -> (n \div 256) % 256
          [] k = 3 -> (n \div 65536) % 256
          [] OTHER -> n \div 16777216]

DigitChar(d) == <<"0", "1", "2", "3", "4", "5", "6", "7", "8", "9">>[d + 1]
DigitChars(digits) == [k \in 1..Len(digits) |-> DigitChar(digits[k])]

(***************************************************************************)
(* JSON documents: the text of a string-valued argument_value              *)
(*   <<"num", negative, digits>>  an integer literal                       *)
(*   <<"bool", b>>, <<"null">>, <<"str", chars>>, <<"arr", elements>>      *)
(*   <<"bad">>  text that is not one JSON document of these shapes         *)
(***************************************************************************)
J_num(neg, digits) == <<"num", neg, digits>>
J_bool(b) == <<"bool", b>>
J_null == <<"null">>
J_str(chars) == <<"str", chars>>
J_arr(elems) == <<"arr", elems>>
J_bad == <<"bad">>

\* The characters of the model's strings and their UTF-8 bytes.
Utf8(c) ==
    CASE c = "a" -> <<97>>
      [] c = "\"" -> <<34>>
      [] c = "U+00E9" -> <<195, 169>>
      [] c = "m" -> <<109>>
      [] c = "y" -> <<121>>
      [] c = " " -> <<32>>
      [] c = "n" -> <<110>>
      [] c = "e" -> <<101>>

StringChars == {"a", "\"", "U+00E9", "m", "y", " ", "n", "e"}

RECURSIVE Utf8Bytes(_)
Utf8Bytes(chars) ==
    IF chars = <<>> THEN <<>> ELSE Utf8(chars[1]) \o Utf8Bytes(Tail(chars))

\* IntFits asking only that the magnitude fits the width: a value past the
\* signed range, or a negative one at an unsigned type, wraps.
IntFitsWidthOnly(t, neg, digits) ==
    LET conv == DigitsToBytes(digits)
        mag == conv[1]
        w == t[3] \div 8
    IN  ~conv[2] /\ \A k \in (w + 1)..Len(mag) : mag[k] = 0

\* Whether an integer literal fits the integer type t.
IntFits(t, neg, digits) ==
    LET conv == DigitsToBytes(digits)
        mag == conv[1]
        w == t[3] \div 8
        inWidth == ~conv[2] /\ \A k \in (w + 1)..Len(mag) : mag[k] = 0
    IN  IF ~t[2] THEN ~neg /\ inWidth
        ELSE /\ inWidth
             /\ \/ mag[w] < 128
                \/ neg /\ mag[w] = 128 /\ \A k \in 1..(w - 1) : mag[k] = 0

\* serde_json::from_str::<t> accepts the document.
RECURSIVE Deserializable(_, _)
Deserializable(t, j) ==
    CASE t[1] = "int" -> j[1] = "num" /\ IntFits(t, j[2], j[3])
      [] t[1] = "bool" -> j[1] = "bool"
      [] t[1] = "String" -> j[1] = "str"
      [] t[1] = "Vec" ->
            j[1] = "arr" /\ \A k \in 1..Len(j[2]) : Deserializable(t[2], j[2][k])
      [] t[1] = "Option" -> j = J_null \/ Deserializable(t[2], j)
      [] t[1] = "Array" ->
            /\ j[1] = "arr"
            /\ Len(j[2]) = t[2]
            /\ \A k \in 1..Len(j[2]) : Deserializable(T_int(FALSE, 8), j[2][k])
      [] t[1] = "OptionArray" -> j = J_null \/ Deserializable(T_Array(t[2]), j)

\* from_str that checks the shape of the document and not the range of an
\* integer.
from_str_unchecked_range(t, j) ==
    LET RECURSIVE Shape(_, _)
        Shape(tt, jj) ==
            CASE tt[1] = "int" -> jj[1] = "num"
              [] tt[1] = "bool" -> jj[1] = "bool"
              [] tt[1] = "String" -> jj[1] = "str"
              [] tt[1] = "Vec" ->
                    jj[1] = "arr" /\ \A k \in 1..Len(jj[2]) : Shape(tt[2], jj[2][k])
              [] tt[1] = "Option" -> jj = J_null \/ Shape(tt[2], jj)
              [] tt[1] = "Array" -> jj[1] = "arr" /\ Len(jj[2]) = tt[2]
              [] tt[1] = "OptionArray" -> jj = J_null \/ Shape(T_Array(tt[2]), jj)
    IN  IF Shape(t, j) THEN Ok(j) ELSE Err(FailToSerializeCallArgument, "serde_json")

\* serde_json::from_str(&value) at type t: the typed value (kept as its
\* document), or the error of line 153.
from_str(t, j) ==
    IF Deserializable(t, j) THEN Ok(j)
    ELSE Err(FailToSerializeCallArgument, "serde_json")

(***************************************************************************)
(* Borsh serialization (data.try_to_vec())                                 *)
(***************************************************************************)
\* An integer literal written most significant byte first.
IntBytesBigEndian(t, neg, digits) ==
    LET mag == SubSeq(DigitsToBytes(digits)[1], 1, t[3] \div 8)
        le == IF neg THEN Negate(mag) ELSE mag
    IN  [k \in 1..Len(le) |-> le[Len(le) + 1 - k]]

\* The little-endian bytes of an integer literal at the width of t.
IntBytes(t, neg, digits) ==
    LET mag == SubSeq(DigitsToBytes(digits)[1], 1, t[3] \div 8)
    IN  IF neg THEN Negate(mag) ELSE mag

\* [a, b, ...].concat(), halving the list.
RECURSIVE Concat(_)
Concat(seqs) ==
    IF seqs = <<>> THEN <<>>
    ELSE IF Len(seqs) = 1 THEN seqs[1]
    ELSE LET h == Len(seqs) \div 2
         IN  Concat(SubSeq(seqs, 1, h)) \o Concat(SubSeq(seqs, h + 1, Len(seqs)))

\* An Option written with no tag before the value that is present.
serialize_option_untagged(j, inner) ==
    IF j = J_null THEN <<0>> ELSE inner

\* Option<T>: the tag 0 alone, or the tag 1 and the value's bytes.
serialize_option(j, inner) ==
    IF j = J_null THEN <<0>> ELSE <<1>> \o inner

\* A Vec written with a one-byte count.
serialize_vec_short_count(elements) ==
    <<Len(elements) % 256>> \o Concat(elements)

\* Vec<T>: the count as a u32, then the elements' bytes.
serialize_vec(elements) ==
    LeBytes(Len(elements), 4) \o Concat(elements)

\* String: the byte length as a u32, then the UTF-8 bytes.
serialize_string(chars) ==
    LET b == Utf8Bytes(chars) IN LeBytes(Len(b), 4) \o b

\* bool: one byte.
serialize_bool(b) == <<(IF b THEN 1 ELSE 0)>>

\* A fixed array written as a Vec is, with a count.
serialize_array_counted(elements) ==
    [k \in 1..4 |-> IF k = 1 THEN Len(elements) ELSE 0] \o Concat(elements)

\* [u8; N]: the elements' bytes and nothing else.
serialize_array(elements) == Concat(elements)

RECURSIVE try_to_vec(_, _)
try_to_vec(t, j) ==
    CASE t[1] = "int" -> IntBytes(t, j[2], j[3])
      [] t[1] = "bool" -> serialize_bool(j[2])
      [] t[1] = "String" -> serialize_string(j[2])
      [] t[1] = "Vec" ->
            serialize_vec([k \in 1..Len(j[2]) |-> try_to_vec(t[2], j[2][k])])
      [] t[1] = "Option" -> serialize_option(j, try_to_vec(t[2], j))
      [] t[1] = "Array" ->
            serialize_array([k \in 1..Len(j[2]) |->
                                try_to_vec(T_int(FALSE, 8), j[2][k])])
      [] t[1] = "OptionArray" ->
            serialize_option(j, try_to_vec(T_Array(t[2]), j))

(***************************************************************************)
(* serialize_primitive_argument_value                                      *)
(***************************************************************************)
\* Result<Option<Vec<u8>>>: Ok(None) when no type of the list matches.
serialize_primitive_argument_value(value, data_type) ==
    LET dt_no_space == sanitize_argument_type(data_type)
        hit == MatchType(serialize_call_args, dt_no_space)
    IN  IF IsSome(hit)
        THEN LET data == from_str(hit[2], value)
             IN  IF IsErr(data) THEN data
                 ELSE Ok(Some(try_to_vec(hit[2], data[2])))
        ELSE Ok(None)

(***************************************************************************)
(* Borsh deserialization (T::deserialize(&mut temp))                       *)
(*                                                                         *)
(* A decoded Rust value is a tagged tuple:                                 *)
(*   <<"int", signed, bytes>>, <<"bool", b>>, <<"string", bytes>>,         *)
(*   <<"list", elements>> (a Vec or a fixed array), <<"Some", v>>,         *)
(*   <<"None">>.                                                           *)
(* BorshDeserialize(t, buf) is <<"Ok", value, bytes consumed>> or an Err.  *)
(***************************************************************************)
BorshErr == Err(FailToSerializeCallArgument, <<"borsh">>)

\* std::str::from_utf8 accepts the bytes: one-byte characters and two-byte
\* characters (lead C2..DF, continuation 80..BF); every other lead byte of
\* the model's buffers (a stray continuation, 0xFF) is invalid.
RECURSIVE Utf8Valid(_)
Utf8Valid(bytes) ==
    IF bytes = <<>> THEN TRUE
    ELSE IF bytes[1] < 128 THEN Utf8Valid(Tail(bytes))
    ELSE IF bytes[1] >= 194 /\ bytes[1] <= 223
         THEN /\ Len(bytes) >= 2
              /\ bytes[2] >= 128 /\ bytes[2] <= 191
              /\ Utf8Valid(SubSeq(bytes, 3, Len(bytes)))
    ELSE FALSE

\* The length prefix (u32, little-endian) as a number, or -1 when it is
\* 65536 or more: more than any buffer of the model holds.
LenPrefix(b4) ==
    IF b4[3] # 0 \/ b4[4] # 0 THEN -1 ELSE b4[1] + 256 * b4[2]

RECURSIVE BorshDeserialize(_, _)
RECURSIVE ReadElements(_, _, _)

\* n values of type t read one after the other, the first half and then
\* the second: <<"Ok", values, bytes consumed>> or the first error.
ReadElements(t, buf, n) ==
    IF n = 0 THEN <<"Ok", <<>>, 0>>
    ELSE IF n = 1
    THEN LET first == BorshDeserialize(t, buf)
         IN  IF IsErr(first) THEN first
             ELSE <<"Ok", <<first[2]>>, first[3]>>
    ELSE LET h == n \div 2
             left == ReadElements(t, buf, h)
         IN  IF IsErr(left) THEN left
             ELSE LET right == ReadElements(t,
                                   SubSeq(buf, left[3] + 1, Len(buf)), n - h)
                  IN  IF IsErr(right) THEN right
                      ELSE <<"Ok", left[2] \o right[2], left[3] + right[3]>>

BorshDeserialize(t, buf) ==
    CASE t[1] = "int" ->
            LET w == t[3] \div 8
            IN  IF Len(buf) < w THEN BorshErr
                ELSE <<"Ok", <<"int", t[2], SubSeq(buf, 1, w)>>, w>>
      [] t[1] = "bool" ->
            IF Len(buf) < 1 THEN BorshErr
            ELSE IF buf[1] = 0 THEN <<"Ok", <<"bool", FALSE>>, 1>>
            ELSE IF buf[1] = 1 THEN <<"Ok", <<"bool", TRUE>>, 1>>
            ELSE BorshErr
      [] t[1] = "String" ->
            IF Len(buf) < 4 THEN BorshErr
            ELSE LET n == LenPrefix(buf)
                 IN  IF n < 0 \/ Len(buf) - 4 < n THEN BorshErr
                     ELSE LET bytes == SubSeq(buf, 5, 4 + n)
                          IN  IF Utf8Valid(bytes)
                              THEN <<"Ok", <<"string", bytes>>, 4 + n>>
                              ELSE BorshErr
      [] t[1] = "Vec" ->
            IF Len(buf) < 4 THEN BorshErr
            ELSE LET n == LenPrefix(buf)
                 IN  \* every element takes at least one byte
                     IF n < 0 \/ Len(buf) - 4 < n THEN BorshErr
                     ELSE LET es == ReadElements(t[2],
                                        SubSeq(buf, 5, Len(buf)), n)
                          IN  IF IsErr(es) THEN es
                              ELSE <<"Ok", <<"list", es[2]>>, 4 + es[3]>>
      [] t[1] = "Option" ->
            IF Len(buf) < 1 THEN BorshErr
            ELSE IF buf[1] = 0 THEN <<"Ok", None, 1>>
            ELSE IF buf[1] = 1
                 THEN LET v == BorshDeserialize(t[2], Tail(buf))
                      IN  IF IsErr(v) THEN v
                          ELSE <<"Ok", Some(v[2]), 1 + v[3]>>
            ELSE BorshErr
      [] t[1] = "Array" ->
            IF Len(buf) < t[2] THEN BorshErr
            ELSE <<"Ok",
                   <<"list", [k \in 1..t[2] |-> <<"int", FALSE, <<buf[k]>>>>]>>,
                   t[2]>>
      [] t[1] = "OptionArray" ->
            BorshDeserialize(T_Option(T_Array(t[2])), buf)

(***************************************************************************)
(* format!("{:?}", data)                                                   *)
(***************************************************************************)
chars_true == <<"t", "r", "u", "e">>
chars_false == <<"f", "a", "l", "s", "e">>
\* An absent option shown as JSON shows it.
chars_null == <<"n", "u", "l", "l">>
chars_None == <<"N", "o", "n", "e">>
chars_Some == <<"S", "o", "m", "e">>

\* The characters of valid UTF-8 bytes, each as Debug escapes it inside a
\* string literal.
RECURSIVE EscapeDebug(_)
EscapeDebug(bytes) ==
    IF bytes = <<>> THEN <<>>
    ELSE IF bytes[1] >= 128
         THEN (IF bytes[1] = 195 /\ bytes[2] = 169
               THEN <<"U+00E9">>
               ELSE <<"U+", ToString(bytes[1]), ToString(bytes[2])>>)
              \o EscapeDebug(SubSeq(bytes, 3, Len(bytes)))
    ELSE (CASE bytes[1] = 34 -> <<"\\", "\"">>
            [] bytes[1] = 92 -> <<"\\", "\\">>
            [] bytes[1] = 0 -> <<"\\", "0">>
            [] bytes[1] = 97 -> <<"a">>
            [] bytes[1] = 109 -> <<"m">>
            [] bytes[1] = 121 -> <<"y">>
            [] bytes[1] = 32 -> <<" ">>
            [] bytes[1] = 110 -> <<"n">>
            [] bytes[1] = 101 -> <<"e">>
            [] bytes[1] \in 1..8 ->
                  <<"\\", "u", "{", DigitChar(bytes[1]), "}">>
            [] OTHER -> <<"ascii", ToString(bytes[1])>>)
         \o EscapeDebug(Tail(bytes))

\* elements joined by ", "
RECURSIVE Join(_)
Join(parts) ==
    IF parts = <<>> THEN <<>>
    ELSE IF Len(parts) = 1 THEN parts[1]
    ELSE LET h == Len(parts) \div 2
         IN  Join(SubSeq(parts, 1, h)) \o <<",", " ">>
             \o Join(SubSeq(parts, h + 1, Len(parts)))

RECURSIVE Debug(_)
Debug(v) ==
    CASE v[1] = "int" ->
            IF v[2] /\ v[3][Len(v[3])] >= 128
            THEN <<"-">> \o DigitChars(BytesToDigits(Negate(v[3])))
            ELSE DigitChars(BytesToDigits(v[3]))
      [] v[1] = "bool" -> IF v[2] THEN chars_true ELSE chars_false
      [] v[1] = "string" -> <<"\"">> \o EscapeDebug(v[2]) \o <<"\"">>
      [] v[1] = "list" ->
            <<"[">> \o Join([k \in 1..Len(v[2]) |-> Debug(v[2][k])]) \o <<"]">>
      [] v[1] = "Some" -> chars_Some \o <<"(">> \o Debug(v[2]) \o <<")">>
      [] v[1] = "None" -> chars_None

(***************************************************************************)
(* deserialize_from_buf, deserialize_primitive_argument_value,             *)
(* parse_call_result_from_data_type                                        *)
(***************************************************************************)
\* deserialize_from_buf that takes the buffer for the value and nothing
\* more (try_from_slice instead of deserialize).
deserialize_from_buf_whole(t, buf, pos) ==
    LET deserialized == BorshDeserialize(t, buf)
    IN  IF IsErr(deserialized) THEN <<deserialized, pos>>
        ELSE IF deserialized[3] # Len(buf) THEN <<BorshErr, pos>>
        ELSE <<Ok(deserialized[2]), pos + deserialized[3]>>

\* <<Result<T>, pos afterwards>>: pos grows by org_len - new_len on success
\* and is left alone by the early return of `?`.
deserialize_from_buf(t, buf, pos) ==
    LET deserialized == BorshDeserialize(t, buf)
    IN  IF IsErr(deserialized) THEN <<deserialized, pos>>
        ELSE <<Ok(deserialized[2]), pos + deserialized[3]>>

\* <<Result<Option<String>>, pos afterwards>>
deserialize_with_list(list, buf, pos, data_type) ==
    LET dt_no_space == sanitize_argument_type(data_type)
        hit == MatchType(list, dt_no_space)
    IN  IF IsSome(hit)
        THEN LET data == deserialize_from_buf(hit[2], buf, pos)
             IN  IF IsErr(data[1]) THEN data
                 ELSE <<Ok(Some(Debug(data[1][2]))), data[2]>>
        ELSE <<Ok(None), pos>>

deserialize_primitive_argument_value(buf, pos, data_type) ==
    deserialize_with_list(deserialize_call_args, buf, pos, data_type)

\* e.to_string() of a DisplayMsg::FailToSerializeCallArgument(e)
to_string(err) == <<"Fail to serialize call argument. ">> \o err[3]

\* parse_call_result_from_data_type answering an unmatched type with an
\* empty rendering.
parse_call_result_unmatched_as_empty(vec, data_type) ==
    LET r == deserialize_primitive_argument_value(vec, 0, data_type)[1]
    IN  IF IsOk(r)
        THEN IF IsSome(r[2]) THEN Ok(r[2][2]) ELSE Ok(<<>>)
        ELSE Err(FailToSerializeCallArgument, to_string(r))

parse_call_result_from_data_type(vec, data_type) ==
    LET r == deserialize_primitive_argument_value(vec, 0, data_type)[1]
    IN  IF IsOk(r)
        THEN IF IsSome(r[2]) THEN Ok(r[2][2])
             ELSE Err(FailToSerializeCallArgument, data_type)
        ELSE Err(FailToSerializeCallArgument, to_string(r))

(***************************************************************************)
(* serde_json::Value, as the encoder and the schema reader see it          *)
(*   <<"String", s>>   s: the characters of an argument_type or            *)
(*                     argument_name, the document of an argument_value    *)
(*   <<"Array", elements>>                                                 *)
(*   <<"Null">>, <<"Bool">>, <<"Number">>, <<"Object">>  every other       *)
(*                     shape; an absent field reads as <<"Null">>          *)
(* An argument or schema node is a record of the fields the code indexes.  *)
(***************************************************************************)
V_String(s) == <<"String", s>>
V_Array(elems) == <<"Array", elems>>
V_Null == <<"Null">>
OtherValues == {<<"Null">>, <<"Bool">>, <<"Number">>, <<"Object">>}

Arg(ty, val) == [argument_type |-> ty, argument_value |-> val]

\* Value::as_str
as_str(v) == IF v[1] = "String" THEN Some(v[2]) ELSE None

msg_type_not_matched(data_type) ==
    <<"Fail to parse value of data type ">> \o data_type
msg_array_type ==
    <<"Json array value must be with argument types either Custom, or Vec<Custom>">>
msg_unknown_value == <<"Unknown Json Value">>

(***************************************************************************)
(* serialize_argument_value, parse_json_argument_type_value                *)
(***************************************************************************)
\* str::to_lowercase on the letters of the model's type names.
to_lowercase(s) ==
    [k \in 1..Len(s) |->
        CASE s[k] = "C" -> "c"
          [] s[k] = "V" -> "v"
          [] s[k] = "U" -> "u"
          [] s[k] = "O" -> "o"
          [] s[k] = "S" -> "s"
          [] s[k] = "A" -> "a"
          [] OTHER -> s[k]]

\* is_custom with the type compared in lower case.
is_custom_ignoring_case(data_type) ==
    LET dt == to_lowercase(Replace(data_type, <<" ">>, <<>>))
    IN  IF dt = to_lowercase(kw_Custom) THEN Some(TRUE)
        ELSE IF dt = to_lowercase(kw_Vec \o LT \o kw_Custom \o GT)
        THEN Some(FALSE)
        ELSE None

\* Lines 98-106: Some(is_custom), or None for the early return.
is_custom(data_type) ==
    LET dt == Replace(data_type, <<" ">>, <<>>)
    IN  IF dt = kw_Custom THEN Some(TRUE)
        ELSE IF dt = kw_Vec \o LT \o kw_Custom \o GT THEN Some(FALSE)
        ELSE None

\* args_concat with the count of Vec<Custom> put before a Custom as well.
args_concat_counted(custom, value_arr, args) ==
    LeBytes(Len(value_arr), 4) \o Concat(args)

\* args_concat with the count of Vec<Custom> left out.
args_concat_uncounted(custom, value_arr, args) == Concat(args)

\* Lines 116-128: the children's bytes, after their count for Vec<Custom>.
args_concat(custom, value_arr, args) ==
    IF custom THEN Concat(args)
    ELSE LeBytes(Len(value_arr), 4) \o Concat(args)

\* The last arm with the value passed over: no bytes and no error.
unknown_json_value_skipped == Ok(<<>>)

\* Lines 130-134: the arm of every other JSON shape.
unknown_json_value == Err(FailToParseCallArguments, msg_unknown_value)

RECURSIVE serialize_argument_value(_, _)
RECURSIVE serialize_children(_)

\* The loop of lines 108-115: the children's encodings in order, or the
\* first error.
serialize_children(value_arr) ==
    IF value_arr = <<>> THEN Ok(<<>>)
    ELSE LET v == value_arr[1]
             child_data_type == as_str(v.argument_type)
         IN  IF ~IsSome(child_data_type)
             THEN Err(MissingFieldinJson, <<"argument_type">>)
             ELSE LET child_data_value ==
                          serialize_argument_value(child_data_type[2],
                                                   v.argument_value)
                  IN  IF IsErr(child_data_value) THEN child_data_value
                      ELSE LET rest == serialize_children(Tail(value_arr))
                           IN  IF IsErr(rest) THEN rest
                               ELSE Ok(<<child_data_value[2]>> \o rest[2])

serialize_argument_value(data_type, value) ==
    CASE value[1] = "String" ->
            LET r == serialize_primitive_argument_value(value[2], data_type)
            IN  IF IsErr(r) THEN r
                ELSE IF IsSome(r[2]) THEN Ok(r[2][2])
                ELSE Err(FailToParseCallArguments,
                         msg_type_not_matched(data_type))
      [] value[1] = "Array" ->
            LET custom == is_custom(data_type)
            IN  IF ~IsSome(custom)
                THEN Err(FailToParseCallArguments, msg_array_type)
                ELSE LET args == serialize_children(value[2])
                     IN  IF IsErr(args) THEN args
                         ELSE Ok(args_concat(custom[2], value[2], args[2]))
      [] OTHER -> unknown_json_value

parse_json_argument_type_value(json_arg) ==
    LET j_type == as_str(json_arg.argument_type)
    IN  IF ~IsSome(j_type) THEN Err(MissingFieldinJson, <<"argument_type">>)
        ELSE serialize_argument_value(j_type[2], json_arg.argument_value)

(***************************************************************************)
(* parse_json_arguments, call_arguments_from_json_array,                   *)
(* call_arguments_from_json_value                                          *)
(* A document is a record of the field the code indexes, "arguments".      *)
(***************************************************************************)
Document(v) == [arguments |-> v]

\* parse_json_arguments reading an arguments field that is no array as an
\* empty array.
parse_json_arguments_or_none(doc) ==
    IF doc.arguments[1] = "Array" THEN Ok(doc.arguments[2]) ELSE Ok(<<>>)

\* Lines 67-72.
parse_json_arguments(doc) ==
    IF doc.arguments[1] = "Array" THEN Ok(doc.arguments[2])
    ELSE Err(MissingFieldinJson, <<"arguments">>)

\* The values of a sequence of Ok results.
Unwrapped(results) == [k \in 1..Len(results) |-> results[k][2]]

\* The `?` of line 58 in the loop of lines 56-59: the first error of a
\* sequence of results, or else all their values.
FirstErrOrAll(results) ==
    LET failed == {k \in 1..Len(results) : IsErr(results[k])}
    IN  IF failed = {} THEN Ok(Unwrapped(results))
        ELSE results[CHOOSE k \in failed : \A i \in failed : k <= i]

\* call_arguments_from_json_array keeping the buffers of the arguments
\* that encode and passing over the others.
call_arguments_skipping_failures(json_array) ==
    Ok(Unwrapped(SelectSeq(
        [k \in 1..Len(json_array) |->
            parse_json_argument_type_value(json_array[k])],
        LAMBDA r : r[1] = "Ok")))

\* Lines 54-61: the first error ends the loop.
call_arguments_from_json_array(json_array) ==
    FirstErrOrAll([k \in 1..Len(json_array) |->
                      parse_json_argument_type_value(json_array[k])])

\* Lines 40-43.
call_arguments_from_json_value(doc) ==
    LET json_args == parse_json_arguments(doc)
    IN  IF IsErr(json_args) THEN json_args
        ELSE call_arguments_from_json_array(json_args[2])

(***************************************************************************)
(* Inputs of the model                                                     *)
(***************************************************************************)
\* Bounds.
MaxLen == 2         \* elements of a JSON array in an argument_value text
MaxFields == 2      \* children of the outermost Custom / Vec<Custom> array
MaxBuf == 3         \* bytes of a buffer that comes from no encoder
MaxNodes == 2       \* nodes of the outermost array of a schema

\* Sequences over S of length at most n.
SeqsUpTo(S, n) == UNION {[1..k -> S] : k \in 0..n}

\* Insertions of one character c into s, at every position.
Insertions(s, c) ==
    {SubSeq(s, 1, i) \o <<c>> \o SubSeq(s, i + 1, Len(s)) : i \in 0..Len(s)}

\* The spelling a user gives a type of the lists: arrays as [u8;N].
RECURSIVE UserName(_)
UserName(t) ==
    CASE t[1] = "Array" -> <<"[", "u", "8", ";">> \o Spell(t[2]) \o <<"]">>
      [] t[1] = "OptionArray" ->
            kw_Option \o LT \o UserName(T_Array(t[2])) \o GT
      [] t[1] = "Vec" -> kw_Vec \o LT \o UserName(t[2]) \o GT
      [] t[1] = "Option" -> kw_Option \o LT \o UserName(t[2]) \o GT
      [] OTHER -> TypeName(t)

n_u8 == <<"u", "8">>
n_Custom == kw_Custom
n_VecCustom == kw_Vec \o LT \o kw_Custom \o GT

\* The type names of section 6 of the specification, as a user spells them.
ListedFlatNames == {UserName(t) : t \in serialize_call_args}
ListedNames == ListedFlatNames \cup {n_Custom, n_VecCustom}

\* Strings that are none of the listed spellings.
UnlistedNames ==
    { kw_Vec \o LT \o kw_Vec \o LT \o kw_Vec \o LT \o kw_bool \o GT \o GT \o GT,
      kw_Option \o LT \o kw_Option \o LT \o n_u8 \o GT \o GT,
      kw_Array \o LT \o <<"u", "8", ",", "3", "2">> \o GT,
      kw_Option \o kw_Array \o LT \o <<"u", "8", ",", "6", "4">> \o GT,
      <<"[", "i", "1", "6", ";", "3", "2", "]">>,
      <<"[", "u", "8", ";", "3", "2", "]", ">">>,
      kw_Option \o LT \o <<"[", "u", "8", ";", "3", "2", "]">>,
      kw_Option \o LT \o <<"[", "i", "8", ";", "6", "4", "]">> \o GT,
      <<"[", "u", "8", ";", "1", "6", "]">>,
      <<"s", "t", "r", "i", "n", "g">>,
      <<"c", "u", "s", "t", "o", "m">>,
      kw_Vec \o LT \o <<"c", "u", "s", "t", "o", "m">> \o GT,
      <<"U", "8">>,
      kw_Vec \o LT \o n_u8,
      n_u8 \o GT,
      <<>> }

\* The names whose spacing variants are tried: one per shape.
SpacedBases ==
    { n_u8, kw_String, kw_Vec \o LT \o <<"i", "1", "6">> \o GT,
      kw_Option \o LT \o kw_bool \o GT,
      <<"[", "u", "8", ";", "3", "2", "]">>,
      kw_Option \o LT \o <<"[", "u", "8", ";", "6", "4", "]">> \o GT,
      n_Custom, n_VecCustom,
      <<"[", "i", "1", "6", ";", "3", "2", "]">> }

WhitespaceChars == {" ", "\t", "\n"}

SpacedNames ==
    UNION {Insertions(s, c) : s \in SpacedBases, c \in WhitespaceChars}
    \cup {<<" ">> \o s \o <<" ", " ">> : s \in SpacedBases}

TypeStrings == ListedNames \cup UnlistedNames \cup SpacedNames

\* Integer literals.
Num(digits) == J_num(FALSE, digits)
Neg(digits) == J_num(TRUE, digits)
d_2_32 == <<4, 2, 9, 4, 9, 6, 7, 2, 9, 6>>
d_2_64 == <<1, 8, 4, 4, 6, 7, 4, 4, 0, 7, 3, 7, 0, 9, 5, 5, 1, 6, 1, 6>>
d_2_128 ==
    <<3, 4, 0, 2, 8, 2, 3, 6, 6, 9, 2, 0, 9, 3, 8, 4, 6, 3, 4, 6,
      3, 3, 7, 4, 6, 0, 7, 4, 3, 1, 7, 6, 8, 2, 1, 1, 4, 5, 6>>
NumberDocs ==
    { Num(<<0>>), Num(<<5>>), Num(<<1, 2, 7>>), Num(<<1, 2, 8>>),
      Num(<<2, 5, 5>>), Num(<<2, 5, 6>>), Num(<<6, 5, 5, 3, 6>>),
      Num(<<4, 2, 9, 4, 9, 6, 7, 2, 9, 5>>), Num(d_2_32),
      Num(d_2_64), Num(d_2_128),
      Neg(<<1>>), Neg(<<1, 2, 8>>), Neg(<<1, 2, 9>>), Neg(d_2_64) }
StringDocs ==
    { J_str(<<>>), J_str(<<"a">>), J_str(<<"a", "\"">>), J_str(<<"U+00E9", "a">>) }
ScalarDocs ==
    NumberDocs \cup StringDocs \cup {J_bool(TRUE), J_bool(FALSE), J_null}

\* The elements of the arrays.
ElementDocs ==
    { Num(<<0>>), Num(<<2, 5, 6>>), J_bool(TRUE), J_null, J_str(<<"a">>) }
FlatArrayDocs == {J_arr(es) : es \in SeqsUpTo(ElementDocs, MaxLen)}
InnerArrayDocs ==
    { J_arr(<<>>), J_arr(<<Neg(<<1>>), Num(<<0>>)>>),
      J_arr(<<J_str(<<"a">>)>>), J_arr(<<J_null>>) }
NestedArrayDocs ==
    {J_arr(es) : es \in SeqsUpTo(InnerArrayDocs, MaxLen) \ {<<>>}}
    \cup {J_arr(<<J_arr(<<J_arr(<<J_bool(TRUE)>>)>>)>>)}

\* Arrays of the fixed lengths, one short and one long.
Rep(doc, n) == J_arr([k \in 1..n |-> doc])
FixedArrayDocs ==
    { Rep(Num(<<2>>), 32), Rep(Num(<<2>>), 64), Rep(Num(<<2>>), 31),
      Rep(Num(<<2>>), 33),
      J_arr([k \in 1..32 |-> IF k = 32 THEN Num(<<2, 5, 6>>) ELSE Num(<<k % 10>>)]),
      J_arr([k \in 1..32 |-> Num(<<k % 10>>)]) }

Docs ==
    ScalarDocs \cup FlatArrayDocs \cup NestedArrayDocs \cup FixedArrayDocs
    \cup {J_bad}

\* The documents tried with the spacing variants of a name.
ProbeDocs ==
    { Num(<<5>>), Num(<<2, 5, 6>>), J_str(<<"a">>), J_bool(TRUE), J_null,
      J_arr(<<Num(<<0>>), Neg(<<1>>)>>), Rep(Num(<<2>>), 32),
      Rep(Num(<<2>>), 64), J_bad }

\* Arguments whose argument_value is a string.
StringArgs ==
    {Arg(V_String(ty), V_String(doc)) :
        ty \in ListedNames \cup UnlistedNames, doc \in Docs}
    \cup {Arg(V_String(ty), V_String(doc)) : ty \in SpacedNames, doc \in ProbeDocs}

\* The children of Custom arrays: leaves that encode, leaves that do not,
\* and nested aggregates.
Leaf(ty, doc) == Arg(V_String(ty), V_String(doc))
leaf_u8 == Leaf(n_u8, Num(<<5>>))
leaf_bool == Leaf(kw_bool, J_bool(TRUE))
leaf_String == Leaf(kw_String, J_str(<<"a">>))
leaf_u16 == Leaf(<<"u", "1", "6">>, Num(<<2, 5, 6>>))
leaf_my_name == Leaf(kw_String, J_str(<<"m", "y", " ", "n", "a", "m", "e">>))
Custom(children) == Arg(V_String(n_Custom), V_Array(children))
VecCustom(children) == Arg(V_String(n_VecCustom), V_Array(children))
GoodChildren ==
    { leaf_u8, leaf_bool, leaf_String,
      Custom(<<>>),
      Custom(<<leaf_bool, leaf_String>>),
      Custom(<<leaf_bool, leaf_my_name>>),
      Custom(<<Custom(<<leaf_u16>>), leaf_bool>>),
      VecCustom(<<Custom(<<leaf_bool, leaf_String>>)>>) }
BadChildren ==
    { Leaf(n_u8, Num(<<2, 5, 6>>)),
      Leaf(<<"u", "9">>, Num(<<5>>)),
      Arg(V_Null, V_String(Num(<<5>>))),
      Arg(V_String(n_u8), <<"Number">>),
      Custom(<<leaf_bool, Arg(V_String(kw_bool), V_Null)>>),
      Custom(<<Arg(V_Null, V_Null)>>) }
Children == GoodChildren \cup BadChildren

\* The declared types tried with an array value.
ArrayTypeStrings ==
    { n_Custom, n_VecCustom, n_u8,
      <<"c", "u", "s", "t", "o", "m">>,
      kw_Vec \o LT \o <<"c", "u", "s", "t", "o", "m">> \o GT,
      <<"C", "u", "s", " ", "t", "o", "m">>,
      kw_Vec \o <<" ">> \o LT \o <<" ">> \o kw_Custom \o <<" ">> \o GT,
      <<"C", "u", "s", "\t", "t", "o", "m">> }

ArrayArgs ==
    { Arg(V_String(ty), V_Array(cs)) :
        ty \in ArrayTypeStrings, cs \in SeqsUpTo(Children, MaxFields) }

\* Arguments of every other JSON shape.
OtherArgs ==
    {Arg(V_String(ty), v) : ty \in {n_u8, n_Custom, kw_bool}, v \in OtherValues}
    \cup {Arg(v, V_String(Num(<<5>>))) : v \in OtherValues}
    \cup {Arg(v, w) : v \in {V_Null, <<"Number">>},
                      w \in {<<"Number">>, V_String(J_bad), V_Array(<<leaf_u8>>)}}

Arguments == StringArgs \cup ArrayArgs \cup OtherArgs

\* The arguments of the documents: some that encode, some that do not.
CallArguments ==
    { leaf_u8, leaf_my_name,
      Custom(<<leaf_bool, leaf_String>>),
      VecCustom(<<Custom(<<leaf_bool, leaf_my_name>>)>>),
      Leaf(n_u8, Num(<<2, 5, 6>>)),
      Leaf(<<"u", "9">>, Num(<<5>>)),
      Arg(V_Null, <<"Number">>),
      Custom(<<leaf_bool, Arg(<<"Number">>, <<"Number">>)>>),
      Custom(<<Custom(<<Arg(V_Null, V_Null)>>)>>) }

\* A document of 45 arguments that encode, the last a Vec<Custom>, as in
\* test_parse_arguments.
TestArguments ==
    LET some == << Leaf(<<"i", "8">>, Neg(<<1>>)),
                   Leaf(kw_Vec \o LT \o <<"i", "8">> \o GT,
                        J_arr(<<Neg(<<1>>), Num(<<0>>)>>)),
                   leaf_u16, leaf_bool, leaf_String,
                   Custom(<<leaf_bool, leaf_String>>) >>
    IN  [k \in 1..45 |->
            IF k = 45 THEN VecCustom(<<Custom(<<leaf_bool, leaf_my_name>>)>>)
            ELSE some[(k % 6) + 1]]

Documents ==
    {Document(V_Array(as)) : as \in SeqsUpTo(CallArguments, MaxFields)}
    \cup {Document(V_Array(TestArguments))}
    \cup {Document(v) : v \in OtherValues \cup {V_String(<<"a">>)}}

\* Buffers that come from no encoder.
BufferBytes == {0, 1, 255}
Buffers == SeqsUpTo(BufferBytes, MaxBuf)
ProbeBuffers ==
    { <<>>, <<1>>, <<0, 1, 2, 3>>, <<1, 0, 0, 0, 97>>, [k \in 1..32 |-> 2],
      <<1>> \o [k \in 1..64 |-> 2] }

\* The calls of the direct decoder.
\* Buffers of integers: the one of test_parse_call_result_from_data_type,
\* and the extremes of the widths.
IntegerBuffers ==
    { <<0, 1, 2, 3>>, <<254, 255, 0, 128, 1, 0, 0, 128>>,
      [k \in 1..16 |-> 255], [k \in 1..16 |-> IF k = 16 THEN 128 ELSE 0] }
IntegerNames ==
    {UserName(T_int(sg, w)) : sg \in BOOLEAN, w \in IntWidths} \cup {kw_bool}

DecodeCalls ==
    ((ListedNames \cup UnlistedNames) \X Buffers)
    \cup (SpacedNames \X ProbeBuffers)
    \cup (IntegerNames \X IntegerBuffers)

(***************************************************************************)
(* Schemas                                                                 *)
(* A node is [argument_name, argument_type]; a schema is an array of nodes *)
(* <<"Array", nodes>> or one node <<"Object", node>>.                      *)
(***************************************************************************)
Node(name, ty) == [argument_name |-> name, argument_type |-> ty]
LeafNode(name, ty) == Node(name, V_String(ty))
GroupNode(name, nodes) == Node(name, V_Array(nodes))

\* The schema with the nesting of an argument: a group for an array value,
\* a leaf for every other, all unnamed.
RECURSIVE SchemaOf(_)
SchemaOf(a) ==
    IF a.argument_value[1] = "Array"
    THEN GroupNode(V_Null,
             [k \in 1..Len(a.argument_value[2]) |->
                 SchemaOf(a.argument_value[2][k])])
    ELSE Node(V_Null, a.argument_type)

nm_a == V_String(<<"a">>)
nm_b == V_String(<<"b">>)
n_u16 == <<"u", "1", "6">>
n_foo == <<"f", "o", "o">>
SchemaNodes ==
    { LeafNode(V_Null, n_u8), LeafNode(V_Null, kw_bool),
      LeafNode(nm_a, n_u16),
      LeafNode(nm_b, kw_Vec \o LT \o n_u8 \o GT),
      LeafNode(V_Null, n_foo),
      LeafNode(nm_a, kw_Vec \o LT \o kw_Vec \o LT \o n_u8 \o GT \o GT),
      GroupNode(V_Null, <<>>),
      GroupNode(nm_a, <<LeafNode(nm_b, n_u8), LeafNode(V_Null, kw_bool)>>),
      GroupNode(nm_b, <<GroupNode(V_Null, <<LeafNode(nm_a, n_u16)>>),
                        LeafNode(V_Null, n_u8)>>),
      Node(nm_a, V_Null),
      GroupNode(V_Null, <<LeafNode(V_Null, n_u8), Node(V_Null, <<"Number">>)>>) }

\* The schema of test_parse_call_result_from_schema.
schema_u8_bool_u16 ==
    <<"Array", <<LeafNode(V_Null, n_u8), LeafNode(V_Null, kw_bool),
                 LeafNode(V_Null, n_u16)>>>>

\* The first schema of test_parse_call_result.
schema_Person ==
    <<"Object",
      GroupNode(V_String(<<"P", "e", "r", "s", "o", "n">>),
          << LeafNode(V_String(<<"n", "a", "m", "e">>), kw_String),
             LeafNode(V_String(<<"b", "a", "l", "a", "n", "c", "e">>),
                      <<"u", "6", "4">>),
             GroupNode(V_String(<<"f", "r", "i", "e", "n", "d", "s">>),
                 <<LeafNode(V_Null, kw_Vec \o LT \o kw_String \o GT)>>) >>)>>

\* Schemas with a node of depth 2 whose argument_type is absent (null), a
\* boolean, a number or an object, after a leaf that decodes.
BadSchemas ==
    { <<"Array",
        << LeafNode(V_Null, n_u8),
           GroupNode(nm_a, <<GroupNode(V_Null, <<Node(nm_b, v)>>)>>) >>>> :
        v \in OtherValues }

Schemas ==
    {<<"Array", ns>> : ns \in SeqsUpTo(SchemaNodes, MaxNodes)}
    \cup {<<"Object", n>> : n \in SchemaNodes}
    \cup {schema_u8_bool_u16, schema_Person}
    \cup BadSchemas

SchemaBuffers ==
    { <<>>, <<0, 1, 2, 3>>, <<1, 5, 0>>, <<1, 0, 0, 0, 7, 2>> }

(***************************************************************************)
(* The program: calls of the three entry points                            *)
(***************************************************************************)
VARIABLES
    pc,          \* "idle", "encoded", "decoded", "decoded past", "flatten",
                 \* "decode", "returned", "called"
    arg,         \* the argument handed to parse_json_argument_type_value
    encoded,     \* its Result
    vec,         \* the buffer handed to a decoder
    dtype,       \* the data_type handed to parse_call_result_from_data_type
    decoded,     \* its Result
    schema,      \* the schema handed to parse_call_result_from_schema
    values,      \* its work queue (VecDeque<NamedValue>)
    data_types,  \* its flat list of (name, type)
    leaf,        \* how many entries of data_types the decode loop has taken
    pos,         \* its cursor
    result,      \* its list of (name, value)
    ret,         \* its Result
    dequeued,    \* how many turns its while loop has taken
    json_val,    \* the document handed to call_arguments_from_json_value
    arguments    \* its Result

vars == <<pc, arg, encoded, vec, dtype, decoded, schema, values, data_types,
          leaf, pos, result, ret, dequeued, json_val, arguments>>

Nothing == <<"-">>
NoArg == Arg(Nothing, Nothing)

Init ==
    /\ pc = "idle"
    /\ arg = NoArg
    /\ encoded = Nothing
    /\ vec = <<>>
    /\ dtype = Nothing
    /\ decoded = Nothing
    /\ schema = Nothing
    /\ values = <<>>
    /\ data_types = <<>>
    /\ leaf = 0
    /\ pos = 0
    /\ result = <<>>
    /\ ret = Nothing
    /\ dequeued = 0
    /\ json_val = Document(Nothing)
    /\ arguments = Nothing

schema_vars == <<schema, values, data_types, leaf, pos, result, ret, dequeued>>
call_vars == <<json_val, arguments>>

\* One element of call_arguments_from_json_array: an argument is encoded.
Encode ==
    /\ UNCHANGED call_vars
    /\ pc = "idle"
    /\ \E a \in Arguments :
          /\ arg' = a
          /\ encoded' = parse_json_argument_type_value(a)
    /\ pc' = "encoded"
    /\ UNCHANGED <<vec, dtype, decoded>>
    /\ UNCHANGED schema_vars

\* The bytes of a string-valued argument are decoded at the type they were
\* encoded at.
DecodeEncoded ==
    /\ UNCHANGED call_vars
    /\ pc = "encoded"
    /\ IsOk(encoded)
    /\ arg.argument_value[1] = "String"
    /\ vec' = encoded[2]
    /\ dtype' = arg.argument_type[2]
    /\ decoded' = parse_call_result_from_data_type(encoded[2], arg.argument_type[2])
    /\ pc' = "decoded"
    /\ UNCHANGED <<arg, encoded>>
    /\ UNCHANGED schema_vars

\* call_arguments_from_json_value is called on a document.
CallArgumentsFromJsonValue ==
    /\ pc = "idle"
    /\ \E doc \in Documents :
          /\ json_val' = doc
          /\ arguments' = call_arguments_from_json_value(doc)
    /\ pc' = "called"
    /\ UNCHANGED <<arg, encoded, vec, dtype, decoded>>
    /\ UNCHANGED schema_vars

\* Bytes that follow a value in a buffer.
Suffixes == {<<0>>, <<1, 255>>, <<255, 255, 255, 255, 1>>}

\* The bytes of a string-valued argument, with bytes after them, are
\* decoded at the type they were encoded at; pos is the cursor of line 273
\* as deserialize_primitive_argument_value leaves it.
DecodeEncodedWithSuffix ==
    /\ UNCHANGED <<dequeued, json_val, arguments>>
    /\ pc = "encoded"
    /\ IsOk(encoded)
    /\ arg.argument_value[1] = "String"
    /\ \E s \in Suffixes :
          /\ vec' = encoded[2] \o s
          /\ decoded' = parse_call_result_from_data_type(
                            encoded[2] \o s, arg.argument_type[2])
          /\ pos' = deserialize_primitive_argument_value(
                        encoded[2] \o s, 0, arg.argument_type[2])[2]
    /\ dtype' = arg.argument_type[2]
    /\ pc' = "decoded past"
    /\ UNCHANGED <<arg, encoded, schema, values, data_types, leaf, result, ret>>

\* parse_call_result_from_data_type on a buffer of any origin.
DecodeDataType ==
    /\ UNCHANGED call_vars
    /\ pc = "idle"
    /\ \E call \in DecodeCalls :
          /\ dtype' = call[1]
          /\ vec' = call[2]
          /\ decoded' = parse_call_result_from_data_type(call[2], call[1])
    /\ pc' = "decoded"
    /\ UNCHANGED <<arg, encoded>>
    /\ UNCHANGED schema_vars

\* Lines 210-226: the queue is filled from the schema.
InitialQueue(sch) ==
    IF sch[1] = "Array"
    THEN [k \in 1..Len(sch[2]) |->
             [name |-> <<>>, idx |-> k - 1, value |-> sch[2][k]]]
    ELSE <<[name |-> <<>>, idx |-> 0, value |-> sch[2]]>>

StartSchema(buffer, sch) ==
    /\ vec' = buffer
    /\ schema' = sch
    /\ values' = InitialQueue(sch)
    /\ data_types' = <<>>
    /\ leaf' = 0
    /\ pos' = 0
    /\ result' = <<>>
    /\ ret' = Nothing
    /\ dequeued' = 0
    /\ pc' = "flatten"
    /\ UNCHANGED <<dtype, decoded>>

\* parse_call_result_from_schema is called on a buffer of any origin.
CallSchema ==
    /\ UNCHANGED call_vars
    /\ pc = "idle"
    /\ \E buffer \in SchemaBuffers, sch \in Schemas : StartSchema(buffer, sch)
    /\ UNCHANGED <<arg, encoded>>

\* parse_call_result_from_schema is called on the bytes of a Custom
\* argument, with the schema of the argument's own nesting.
CallSchemaOnEncoded ==
    /\ UNCHANGED call_vars
    /\ pc = "encoded"
    /\ IsOk(encoded)
    /\ arg.argument_value[1] = "Array"
    /\ is_custom(arg.argument_type[2]) = Some(TRUE)
    /\ StartSchema(encoded[2], <<"Object", SchemaOf(arg)>>)
    /\ UNCHANGED <<arg, encoded>>

\* val_name with the parent's name left out of a named child's.
ValNameOfChildAlone(name, idx, value) ==
    LET argument_name ==
            IF IsSome(as_str(value.argument_name))
            THEN value.argument_name[2] ELSE <<>>
        index == <<"[">> \o DigitChars(SmallDigits(idx)) \o <<"]">>
    IN  IF name = <<>> /\ argument_name = <<>> THEN index
        ELSE IF name = <<>> THEN argument_name
        ELSE IF argument_name = <<>> THEN name \o index
        ELSE argument_name

\* Lines 229-235.
ValName(name, idx, value) ==
    LET argument_name ==
            IF IsSome(as_str(value.argument_name))
            THEN value.argument_name[2] ELSE <<>>
        index == <<"[">> \o DigitChars(SmallDigits(idx)) \o <<"]">>
    IN  IF name = <<>> /\ argument_name = <<>> THEN index
        ELSE IF name = <<>> THEN argument_name
        ELSE IF argument_name = <<>> THEN name \o index
        ELSE name \o <<".">> \o argument_name

\* FlattenStep with the children of a group put at the front of the queue:
\* a depth-first traversal.
FlattenStepDepthFirst ==
    /\ UNCHANGED call_vars
    /\ dequeued' = dequeued + 1
    /\ pc = "flatten"
    /\ values # <<>>
    /\ LET nv == Head(values)
           val_name == ValName(nv.name, nv.idx, nv.value)
           ty == nv.value.argument_type
       IN  CASE ty[1] = "String" ->
                  /\ data_types' = Append(data_types, <<val_name, ty[2]>>)
                  /\ values' = Tail(values)
                  /\ UNCHANGED <<pc, ret>>
             [] ty[1] = "Array" ->
                  /\ values' =
                         [k \in 1..Len(ty[2]) |->
                             [name |-> val_name, idx |-> k - 1,
                              value |-> ty[2][k]]]
                         \o Tail(values)
                  /\ UNCHANGED <<data_types, pc, ret>>
             [] OTHER ->
                  /\ ret' = Err(FailToParseCallArguments, <<"">>)
                  /\ pc' = "returned"
                  /\ values' = Tail(values)
                  /\ UNCHANGED data_types
    /\ UNCHANGED <<arg, encoded, vec, dtype, decoded, schema, leaf, pos, result>>

\* FlattenStep passing over a node whose argument_type is neither a string
\* nor an array.
FlattenStepSkippingOther ==
    /\ UNCHANGED call_vars
    /\ dequeued' = dequeued + 1
    /\ pc = "flatten"
    /\ values # <<>>
    /\ LET nv == Head(values)
           val_name == ValName(nv.name, nv.idx, nv.value)
           ty == nv.value.argument_type
       IN  CASE ty[1] = "String" ->
                  /\ data_types' = Append(data_types, <<val_name, ty[2]>>)
                  /\ values' = Tail(values)
                  /\ UNCHANGED <<pc, ret>>
             [] ty[1] = "Array" ->
                  /\ values' = Tail(values) \o
                         [k \in 1..Len(ty[2]) |->
                             [name |-> val_name, idx |-> k - 1,
                              value |-> ty[2][k]]]
                  /\ UNCHANGED <<data_types, pc, ret>>
             [] OTHER ->
                  /\ values' = Tail(values)
                  /\ UNCHANGED <<data_types, pc, ret>>
    /\ UNCHANGED <<arg, encoded, vec, dtype, decoded, schema, leaf, pos, result>>

\* FlattenStep leaving the last child of a group out of the queue.
FlattenStepDroppingLastChild ==
    /\ UNCHANGED call_vars
    /\ dequeued' = dequeued + 1
    /\ pc = "flatten"
    /\ values # <<>>
    /\ LET nv == Head(values)
           val_name == ValName(nv.name, nv.idx, nv.value)
           ty == nv.value.argument_type
       IN  CASE ty[1] = "String" ->
                  /\ data_types' = Append(data_types, <<val_name, ty[2]>>)
                  /\ values' = Tail(values)
                  /\ UNCHANGED <<pc, ret>>
             [] ty[1] = "Array" ->
                  /\ values' = Tail(values) \o
                         [k \in 1..(Len(ty[2]) - 1) |->
                             [name |-> val_name, idx |-> k - 1,
                              value |-> ty[2][k]]]
                  /\ UNCHANGED <<data_types, pc, ret>>
             [] OTHER ->
                  /\ ret' = Err(FailToParseCallArguments, <<"">>)
                  /\ pc' = "returned"
                  /\ values' = Tail(values)
                  /\ UNCHANGED data_types
    /\ UNCHANGED <<arg, encoded, vec, dtype, decoded, schema, leaf, pos, result>>

\* One turn of the while loop of lines 228-252.
FlattenStep ==
    /\ UNCHANGED call_vars
    /\ dequeued' = dequeued + 1
    /\ pc = "flatten"
    /\ values # <<>>
    /\ LET nv == Head(values)
           val_name == ValName(nv.name, nv.idx, nv.value)
           ty == nv.value.argument_type
       IN  CASE ty[1] = "String" ->
                  /\ data_types' = Append(data_types, <<val_name, ty[2]>>)
                  /\ values' = Tail(values)
                  /\ UNCHANGED <<pc, ret>>
             [] ty[1] = "Array" ->
                  /\ values' = Tail(values) \o
                         [k \in 1..Len(ty[2]) |->
                             [name |-> val_name, idx |-> k - 1,
                              value |-> ty[2][k]]]
                  /\ UNCHANGED <<data_types, pc, ret>>
             [] OTHER ->
                  /\ ret' = Err(FailToParseCallArguments, <<"">>)
                  /\ pc' = "returned"
                  /\ values' = Tail(values)
                  /\ UNCHANGED data_types
    /\ UNCHANGED <<arg, encoded, vec, dtype, decoded, schema, leaf, pos, result>>

\* The while loop ends on the empty queue.
FlattenDone ==
    /\ UNCHANGED <<dequeued, json_val, arguments>>
    /\ pc = "flatten"
    /\ values = <<>>
    /\ pc' = "decode"
    /\ UNCHANGED <<arg, encoded, vec, dtype, decoded, schema, values,
                   data_types, leaf, pos, result, ret>>

\* DecodeLeaf with every leaf read from the start of the buffer: the slice
\* is not moved to the cursor.
DecodeLeafFromStart ==
    /\ UNCHANGED <<dequeued, json_val, arguments>>
    /\ pc = "decode"
    /\ leaf < Len(data_types)
    /\ LET name == data_types[leaf + 1][1]
           data_type == data_types[leaf + 1][2]
           r == deserialize_primitive_argument_value(vec, pos, data_type)
       IN  IF IsErr(r[1])
           THEN /\ ret' = r[1]
                /\ pc' = "returned"
                /\ UNCHANGED <<leaf, pos, result>>
           ELSE /\ pos' = r[2]
                /\ leaf' = leaf + 1
                /\ result' = IF IsSome(r[1][2])
                             THEN Append(result, <<name, r[1][2][2]>>)
                             ELSE result
                /\ UNCHANGED <<pc, ret>>
    /\ UNCHANGED <<arg, encoded, vec, dtype, decoded, schema, values, data_types>>

\* DecodeLeaf with the cursor set to the bytes the leaf consumed, not
\* advanced by them.
DecodeLeafCursorSet ==
    /\ UNCHANGED <<dequeued, json_val, arguments>>
    /\ pc = "decode"
    /\ leaf < Len(data_types)
    /\ IF pos > Len(vec)
       THEN /\ pc' = "panicked"
            /\ UNCHANGED <<leaf, pos, result, ret>>
       ELSE LET name == data_types[leaf + 1][1]
                data_type == data_types[leaf + 1][2]
                r == deserialize_primitive_argument_value(
                         SubSeq(vec, pos + 1, Len(vec)), 0, data_type)
            IN  IF IsErr(r[1])
                THEN /\ ret' = r[1]
                     /\ pc' = "returned"
                     /\ UNCHANGED <<leaf, pos, result>>
                ELSE /\ pos' = r[2]
                     /\ leaf' = leaf + 1
                     /\ result' = IF IsSome(r[1][2])
                                  THEN Append(result, <<name, r[1][2][2]>>)
                                  ELSE result
                     /\ UNCHANGED <<pc, ret>>
    /\ UNCHANGED <<arg, encoded, vec, dtype, decoded, schema, values, data_types>>

\* One turn of the for loop of lines 257-263; the slice at pos panics
\* when pos is past the end of the buffer.
DecodeLeaf ==
    /\ UNCHANGED <<dequeued, json_val, arguments>>
    /\ pc = "decode"
    /\ leaf < Len(data_types)
    /\ IF pos > Len(vec)
       THEN /\ pc' = "panicked"
            /\ UNCHANGED <<leaf, pos, result, ret>>
       ELSE LET name == data_types[leaf + 1][1]
                data_type == data_types[leaf + 1][2]
                r == deserialize_primitive_argument_value(
                         SubSeq(vec, pos + 1, Len(vec)), pos, data_type)
            IN  IF IsErr(r[1])
                THEN /\ ret' = r[1]
                     /\ pc' = "returned"
                     /\ UNCHANGED <<leaf, pos, result>>
                ELSE /\ pos' = r[2]
                     /\ leaf' = leaf + 1
                     /\ result' = IF IsSome(r[1][2])
                                  THEN Append(result, <<name, r[1][2][2]>>)
                                  ELSE result
                     /\ UNCHANGED <<pc, ret>>
    /\ UNCHANGED <<arg, encoded, vec, dtype, decoded, schema, values, data_types>>

\* Line 265.
Return ==
    /\ UNCHANGED <<dequeued, json_val, arguments>>
    /\ pc = "decode"
    /\ leaf = Len(data_types)
    /\ ret' = Ok(result)
    /\ pc' = "returned"
    /\ UNCHANGED <<arg, encoded, vec, dtype, decoded, schema, values,
                   data_types, leaf, pos, result>>

Next ==
    \/ Encode
    \/ CallArgumentsFromJsonValue
    \/ DecodeEncoded
    \/ DecodeEncodedWithSuffix
    \/ DecodeDataType
    \/ CallSchema
    \/ CallSchemaOnEncoded
    \/ FlattenStep
    \/ FlattenDone
    \/ DecodeLeaf
    \/ Return

Spec == Init /\ [][Next]_vars

\* The loops of parse_call_result_from_schema run on: a turn that can be
\* taken is taken.
FairSpec ==
    /\ Spec
    /\ WF_vars(FlattenStep)
    /\ WF_vars(FlattenDone)

(***************************************************************************)
(* What the specification says of a call, in terms independent of the      *)
(* operators above                                                         *)
(***************************************************************************)
\* A type string with its spaces, or all of its whitespace, taken out.
WithoutSpaces(s) == SelectSeq(s, LAMBDA c : c # " ")
WithoutWhitespace(s) == SelectSeq(s, LAMBDA c : c \notin WhitespaceChars)

\* The shape of the argument of the last Encode.
TypeIsString == arg.argument_type[1] = "String"
StringValued == TypeIsString /\ arg.argument_value[1] = "String"
ArrayValued == TypeIsString /\ arg.argument_value[1] = "Array"

\* seqs[1] \o seqs[2] \o ..., from the left.
RECURSIVE FlatSeq(_)
FlatSeq(seqs) ==
    IF seqs = <<>> THEN <<>> ELSE seqs[1] \o FlatSeq(Tail(seqs))

\* The decimal digits of 2^n, for the n that bound an integer type.
Pow2Digits(n) ==
    CASE n = 7 -> <<1, 2, 8>>
      [] n = 8 -> <<2, 5, 6>>
      [] n = 15 -> <<3, 2, 7, 6, 8>>
      [] n = 16 -> <<6, 5, 5, 3, 6>>
      [] n = 31 -> <<2, 1, 4, 7, 4, 8, 3, 6, 4, 8>>
      [] n = 32 -> d_2_32
      [] n = 63 -> <<9, 2, 2, 3, 3, 7, 2, 0, 3, 6, 8, 5, 4, 7, 7, 5, 8, 0, 8>>
      [] n = 64 -> d_2_64
      [] n = 127 ->
            <<1, 7, 0, 1, 4, 1, 1, 8, 3, 4, 6, 0, 4, 6, 9, 2, 3, 1, 7, 3,
              1, 6, 8, 7, 3, 0, 3, 7, 1, 5, 8, 8, 4, 1, 0, 5, 7, 2, 8>>
      [] n = 128 -> d_2_128

\* a < b for decimal numerals without leading zeros.
DigitsLess(a, b) ==
    \/ Len(a) < Len(b)
    \/ /\ Len(a) = Len(b)
       /\ \E k \in 1..Len(a) :
             a[k] < b[k] /\ \A i \in 1..(k - 1) : a[i] = b[i]

\* The integer literal is a value of the integer type t.
InRange(t, neg, digits) ==
    IF ~t[2] THEN ~neg /\ DigitsLess(digits, Pow2Digits(t[3]))
    ELSE IF neg THEN ~DigitsLess(Pow2Digits(t[3] - 1), digits)
    ELSE DigitsLess(digits, Pow2Digits(t[3] - 1))

\* The JSON document j is the text of a value of the type t.
RECURSIVE WellFormed(_, _)
WellFormed(t, j) ==
    CASE t[1] = "int" -> j[1] = "num" /\ InRange(t, j[2], j[3])
      [] t[1] = "bool" -> j[1] = "bool"
      [] t[1] = "String" -> j[1] = "str"
      [] t[1] = "Vec" ->
            j[1] = "arr" /\ \A k \in 1..Len(j[2]) : WellFormed(t[2], j[2][k])
      [] t[1] = "Option" -> j[1] = "null" \/ WellFormed(t[2], j)
      [] t[1] = "Array" ->
            /\ j[1] = "arr"
            /\ Len(j[2]) = t[2]
            /\ \A k \in 1..Len(j[2]) : WellFormed(T_int(FALSE, 8), j[2][k])
      [] t[1] = "OptionArray" -> j[1] = "null" \/ WellFormed(T_Array(t[2]), j)

\* A character of a string as Debug shows it between the quotes.
RenderChar(c) == IF c = "\"" THEN <<"\\", "\"">> ELSE <<c>>

\* render(v): the text Rust's Debug gives the value that the document j
\* spells at the type t.
RECURSIVE RenderDoc(_, _)
RenderDoc(t, j) ==
    CASE t[1] = "int" ->
            (IF j[2] THEN <<"-">> ELSE <<>>) \o DigitChars(j[3])
      [] t[1] = "bool" -> IF j[2] THEN chars_true ELSE chars_false
      [] t[1] = "String" ->
            <<"\"">> \o FlatSeq([k \in 1..Len(j[2]) |-> RenderChar(j[2][k])])
            \o <<"\"">>
      [] t[1] \in {"Vec", "Array"} ->
            LET elem == IF t[1] = "Vec" THEN t[2] ELSE T_int(FALSE, 8)
            IN  <<"[">>
                \o Join([k \in 1..Len(j[2]) |-> RenderDoc(elem, j[2][k])])
                \o <<"]">>
      [] t[1] \in {"Option", "OptionArray"} ->
            LET inner == IF t[1] = "Option" THEN t[2] ELSE T_Array(t[2])
            IN  IF j[1] = "null" THEN chars_None
                ELSE chars_Some \o <<"(">> \o RenderDoc(inner, j) \o <<")">>

\* The type of the lists that a user's spelling names.
NamedType(name) ==
    CHOOSE t \in serialize_call_args : UserName(t) = WithoutSpaces(name)

\* The direct decoder has a type for the type string.
DecoderAccepts(data_type) ==
    deserialize_primitive_argument_value(<<>>, 0, data_type)[1] # Ok(None)

\* The outcome of the encoder for a type string that it does not match.
Unmatched(data_type) ==
    Err(FailToParseCallArguments, msg_type_not_matched(data_type))

\* Two results agree: the same success, or errors of the same kind.
SameOutcome(r1, r2) ==
    IF IsOk(r1) THEN r1 = r2 ELSE IsErr(r2) /\ r1[2] = r2[2]

\* Every group of the argument is a Custom (none is a Vec<Custom>).
RECURSIVE OnlyCustomGroups(_)
OnlyCustomGroups(a) ==
    \/ a.argument_value[1] # "Array"
    \/ /\ WithoutSpaces(a.argument_type[2]) = n_Custom
       /\ \A k \in 1..Len(a.argument_value[2]) :
             OnlyCustomGroups(a.argument_value[2][k])

\* The leaves of an argument in declaration order, each as
\* <<qualified name, type string, document>>.
RECURSIVE LeavesOf(_, _)
LeavesOf(a, name) ==
    IF a.argument_value[1] = "Array"
    THEN FlatSeq([k \in 1..Len(a.argument_value[2]) |->
                     LeavesOf(a.argument_value[2][k],
                              name \o <<"[", DigitChar(k - 1), "]">>)])
    ELSE <<<<name, a.argument_type[2], a.argument_value[2]>>>>

\* The children of a Custom with the fields of its nested Customs listed
\* in their place.
Inline(children) ==
    FlatSeq([k \in 1..Len(children) |->
                IF /\ children[k].argument_type[1] = "String"
                   /\ children[k].argument_value[1] = "Array"
                   /\ WithoutSpaces(children[k].argument_type[2]) = n_Custom
                THEN children[k].argument_value[2]
                ELSE <<children[k]>>])

(***************************************************************************)
(* The claims                                                              *)
(***************************************************************************)
\* C1: for every supported flat type T and every value v of T, decoding
\* the bytes of encode(T, v) at T with parse_call_result_from_data_type
\* succeeds and returns the rendering of v.
C1_RoundTrip ==
    (/\ pc = "decoded"
     /\ StringValued
     /\ WithoutSpaces(arg.argument_type[2]) \in ListedFlatNames
     /\ IsOk(encoded))
    => decoded = Ok(RenderDoc(NamedType(arg.argument_type[2]),
                              arg.argument_value[2]))

\* C2: parse_call_result_from_schema, given the bytes the Custom encoder
\* produces for a nesting and the schema of the same nesting, returns for
\* each leaf that leaf's own value under its qualified name.
C2_FlattenOrderIsByteOrder ==
    (/\ pc = "returned"
     /\ ArrayValued
     /\ schema = <<"Object", SchemaOf(arg)>>
     /\ OnlyCustomGroups(arg)
     /\ IsOk(encoded)
     /\ \A k \in 1..Len(LeavesOf(arg, <<"[", "0", "]">>)) :
           DecoderAccepts(LeavesOf(arg, <<"[", "0", "]">>)[k][2]))
    => /\ IsOk(ret)
       /\ LET leaves == LeavesOf(arg, <<"[", "0", "]">>)
          IN  ret[2] = [k \in 1..Len(leaves) |->
                           <<leaves[k][1],
                             RenderDoc(NamedType(leaves[k][2]), leaves[k][3])>>]

\* C3: parse_call_result_from_schema never returns Ok with a result that
\* omits a leaf: on Ok every leaf's type is a supported one and the result
\* has one pair per leaf of the flattened schema.
C3_UnmatchedLeafAborts ==
    (pc = "returned" /\ schema # Nothing /\ IsOk(ret))
    => /\ Len(ret[2]) = Len(data_types)
       /\ \A k \in 1..Len(data_types) : DecoderAccepts(data_types[k][2])

\* C4: the encoder accepts a type string for a string-valued argument
\* exactly when the direct decoder accepts it.
C4_SameTypeSets ==
    (pc = "encoded" /\ StringValued)
    => ((encoded # Unmatched(arg.argument_type[2]))
        <=> DecoderAccepts(arg.argument_type[2]))

\* C5: the direct decoder reports an unmatched type string as a kind of
\* result other than the one it reports a decode failure of a supported
\* type as (here u8 on the empty buffer).
C5_UnmatchedIsNoDecodeFailure ==
    (pc = "decoded" /\ ~DecoderAccepts(dtype))
    => LET failure == parse_call_result_from_data_type(<<>>, n_u8)
       IN  <<decoded[1], decoded[2]>> # <<failure[1], failure[2]>>

\* C6: on the encode path with a string-valued argument, an unmatched type
\* yields FailToParseCallArguments naming the data type, a value that is
\* not one of the declared type yields FailToSerializeCallArgument, and a
\* supported type with a well-formed value yields neither.
C6_EncodeErrorKinds ==
    (pc = "encoded" /\ StringValued)
    => LET ty == arg.argument_type[2]
           hit == MatchType(serialize_call_args, sanitize_argument_type(ty))
       IN  IF ~IsSome(hit) THEN encoded = Unmatched(ty)
           ELSE IF ~WellFormed(hit[2], arg.argument_value[2])
           THEN IsErr(encoded) /\ encoded[2] = FailToSerializeCallArgument
           ELSE IsOk(encoded)

\* C6 happens: 256 is no u8.
C6_Witness ==
    /\ pc = "encoded"
    /\ arg = Leaf(n_u8, Num(<<2, 5, 6>>))
    /\ IsErr(encoded)
    /\ encoded[2] = FailToSerializeCallArgument

\* C7, narrowed to U+0020: a type string and the same string with its
\* spaces removed are accepted or rejected alike (errors of the same kind)
\* and, when accepted, give the same bytes and the same rendering.
C7_SpacesIgnored ==
    /\ (pc = "encoded" /\ TypeIsString)
       => SameOutcome(encoded,
              parse_json_argument_type_value(
                  Arg(V_String(WithoutSpaces(arg.argument_type[2])),
                      arg.argument_value)))
    /\ pc = "decoded"
       => SameOutcome(decoded,
              parse_call_result_from_data_type(vec, WithoutSpaces(dtype)))

\* C7 happens: "u 8" encodes and decodes as u8 does.
C7_Witness ==
    /\ pc = "decoded"
    /\ arg = Leaf(<<"u", " ", "8">>, Num(<<5>>))
    /\ encoded = Ok(<<5>>)
    /\ decoded = Ok(<<"5">>)

\* C7 as stated: the same for every whitespace character (space, tab,
\* newline).
C7_WhitespaceIgnored ==
    /\ (pc = "encoded" /\ TypeIsString)
       => SameOutcome(encoded,
              parse_json_argument_type_value(
                  Arg(V_String(WithoutWhitespace(arg.argument_type[2])),
                      arg.argument_value)))
    /\ pc = "decoded"
       => SameOutcome(decoded,
              parse_call_result_from_data_type(vec, WithoutWhitespace(dtype)))

\* C8: a type string that, with its whitespace removed, is none of the
\* listed spellings fails recognition on the encode path and on the decode
\* path.
C8_OnlyListedShapes ==
    /\ (/\ pc = "encoded"
        /\ StringValued
        /\ WithoutWhitespace(arg.argument_type[2]) \notin ListedNames)
       => encoded = Unmatched(arg.argument_type[2])
    /\ (pc = "decoded" /\ WithoutWhitespace(dtype) \notin ListedNames)
       => decoded = Err(FailToSerializeCallArgument, dtype)

\* C9, with the comparison as the code makes it: a JSON array value is
\* legal when the declared type, its spaces removed, is exactly Custom or
\* Vec<Custom> (upper and lower case told apart); with any other declared
\* type it is rejected with an error and gives no bytes.
C9_ArrayNeedsCustom ==
    (pc = "encoded" /\ ArrayValued)
    => IF WithoutSpaces(arg.argument_type[2]) \in {n_Custom, n_VecCustom}
       THEN (\A k \in 1..Len(arg.argument_value[2]) :
                 arg.argument_value[2][k] \in GoodChildren)
            => IsOk(encoded)
       ELSE encoded = Err(FailToParseCallArguments, msg_array_type)

\* C9 happens: an array value declared "custom" is rejected.
C9_Witness ==
    /\ pc = "encoded"
    /\ arg = Arg(V_String(<<"c", "u", "s", "t", "o", "m">>), V_Array(<<leaf_u8>>))
    /\ encoded = Err(FailToParseCallArguments, msg_array_type)

\* C9 as stated: the declared type is compared without regard to case.
C9_ArrayNeedsCustomAnyCase ==
    (pc = "encoded" /\ ArrayValued)
    => IF to_lowercase(WithoutSpaces(arg.argument_type[2]))
              \in {to_lowercase(n_Custom), to_lowercase(n_VecCustom)}
       THEN (\A k \in 1..Len(arg.argument_value[2]) :
                 arg.argument_value[2][k] \in GoodChildren)
            => IsOk(encoded)
       ELSE encoded = Err(FailToParseCallArguments, msg_array_type)

\* C10: the bytes of a Custom are the concatenation, in array order, of
\* the bytes of its children and nothing more; an empty Custom gives no
\* bytes; a nested Custom gives the bytes of its fields listed inline.
C10_CustomIsConcatenation ==
    (/\ pc = "encoded"
     /\ ArrayValued
     /\ WithoutSpaces(arg.argument_type[2]) = n_Custom)
    => LET children == arg.argument_value[2]
           enc == [k \in 1..Len(children) |->
                      parse_json_argument_type_value(children[k])]
       IN  /\ IF \A k \in 1..Len(children) : IsOk(enc[k])
              THEN encoded = Ok(FlatSeq([k \in 1..Len(children) |-> enc[k][2]]))
              ELSE IsErr(encoded)
           /\ children = <<>> => encoded = Ok(<<>>)
           /\ encoded = parse_json_argument_type_value(Custom(Inline(children)))

\* C10 happens: Custom[Custom[bool true, String "a"], u8 5] is the bytes
\* 1, then 1 0 0 0 97, then 5.
C10_Witness ==
    /\ pc = "encoded"
    /\ arg = Custom(<<Custom(<<leaf_bool, leaf_String>>), leaf_u8>>)
    /\ encoded = Ok(<<1, 1, 0, 0, 0, 97, 5>>)

\* C11: the bytes of a Vec<Custom> are the 4-byte little-endian count of
\* the elements of the JSON array and then the concatenation of the
\* elements' bytes, exactly as for a Custom of the same elements; an empty
\* array gives 0, 0, 0, 0.
C11_VecCustomIsCountedConcatenation ==
    (/\ pc = "encoded"
     /\ ArrayValued
     /\ WithoutSpaces(arg.argument_type[2]) = n_VecCustom)
    => LET elements == arg.argument_value[2]
           n == Len(elements)
           enc == [k \in 1..n |-> parse_json_argument_type_value(elements[k])]
           asCustom == parse_json_argument_type_value(Custom(elements))
           count == <<n % 256, (n \div 256) % 256, (n \div 65536) % 256,
                      n \div 16777216>>
       IN  /\ IF \A k \in 1..n : IsOk(enc[k])
              THEN encoded = Ok(count \o FlatSeq([k \in 1..n |-> enc[k][2]]))
              ELSE IsErr(encoded)
           /\ IF IsOk(asCustom) THEN encoded = Ok(count \o asCustom[2])
              ELSE encoded = asCustom
           /\ elements = <<>> => encoded = Ok(<<0, 0, 0, 0>>)

\* C11 happens: one record of bool true and String "my name" is 16 bytes:
\* the count 1, the bool, the length 7 and the seven bytes.
C11_Witness ==
    /\ pc = "encoded"
    /\ arg = VecCustom(<<Custom(<<leaf_bool, leaf_my_name>>)>>)
    /\ IsOk(encoded)
    /\ Len(encoded[2]) = 16
    /\ encoded[2] = <<1, 0, 0, 0, 1, 7, 0, 0, 0, 109, 121, 32, 110, 97, 109, 101>>

\* A value of the argument, at any depth, is neither a string nor an
\* array.
RECURSIVE HasOtherShape(_)
HasOtherShape(a) ==
    \/ a.argument_value \in OtherValues
    \/ /\ a.argument_value[1] = "Array"
       /\ \E k \in 1..Len(a.argument_value[2]) :
             HasOtherShape(a.argument_value[2][k])

\* C12: the encoder dispatches on the JSON shape of argument_value: a
\* string is parsed as JSON text at the declared type, an array goes to
\* the Custom / Vec<Custom> path, and any other shape (number, boolean,
\* null, object, absent) is an error; such a value at any depth leaves
\* the enclosing argument without bytes.
C12_DispatchOnShape ==
    (pc = "encoded" /\ TypeIsString)
    => LET ty == arg.argument_type[2]
           hit == MatchType(serialize_call_args, sanitize_argument_type(ty))
       IN  /\ arg.argument_value \in OtherValues
              => encoded = Err(FailToParseCallArguments, msg_unknown_value)
           /\ HasOtherShape(arg) => IsErr(encoded)
           /\ encoded = Err(FailToParseCallArguments, msg_unknown_value)
              => HasOtherShape(arg)
           /\ StringValued
              => /\ encoded # Err(FailToParseCallArguments, msg_array_type)
                 /\ IsOk(encoded)
                    <=> (IsSome(hit) /\ WellFormed(hit[2], arg.argument_value[2]))
           /\ ArrayValued
              => (IsOk(encoded)
                  => WithoutSpaces(ty) \in {n_Custom, n_VecCustom})

\* C12 happens: a null two levels down leaves the outermost Custom
\* without bytes.
C12_Witness ==
    /\ pc = "encoded"
    /\ arg = Custom(<<leaf_u8, Custom(<<leaf_bool, Arg(V_String(kw_bool), V_Null)>>)>>)
    /\ encoded = Err(FailToParseCallArguments, msg_unknown_value)

\* C13: for every type T the direct decoder supports, value v and bytes
\* s, decoding encode(T, v) followed by s at T gives what decoding
\* encode(T, v) gives, the rendering of v, and the cursor advances by the
\* length of encode(T, v).
C13_SuffixIgnored ==
    (pc = "decoded past" /\ DecoderAccepts(dtype))
    => /\ decoded = parse_call_result_from_data_type(encoded[2], dtype)
       /\ IsOk(decoded)
       /\ pos = Len(encoded[2])
       /\ Len(vec) > pos

\* C13 happens: String "a" followed by 1, 255 is decoded as "a" with the
\* cursor at 5.
C13_Witness ==
    /\ pc = "decoded past"
    /\ arg = Leaf(kw_String, J_str(<<"a">>))
    /\ vec = <<1, 0, 0, 0, 97, 1, 255>>
    /\ decoded = Ok(<<"\"", "a", "\"">>)
    /\ pos = 5

\* The cursor and the pairs after the first k leaves of the flat list,
\* each leaf decoded on its own from the offset that the leaves before it
\* consumed: <<offset, pairs>>.
RECURSIVE LeafWalk(_)
LeafWalk(k) ==
    IF k = 0 THEN <<0, <<>>>>
    ELSE LET before == LeafWalk(k - 1)
             rest == SubSeq(vec, before[1] + 1, Len(vec))
             r == deserialize_primitive_argument_value(rest, 0, data_types[k][2])
             shown == parse_call_result_from_data_type(rest, data_types[k][2])
         IN  <<before[1] + r[2],
               IF IsOk(shown)
               THEN Append(before[2], <<data_types[k][1], shown[2]>>)
               ELSE before[2]>>

\* C14: structured decoding takes the leaves of the flat list in order:
\* the k-th leaf is decoded from the offset that leaves 1..k-1 consumed,
\* and the result lists the (qualified name, rendered value) pairs in the
\* order of the flat list.
C14_LeavesInOrderAtOffsets ==
    /\ pc = "decode" => pos = LeafWalk(leaf)[1] /\ result = LeafWalk(leaf)[2]
    /\ (pc = "returned" /\ IsOk(ret))
       => /\ leaf = Len(data_types)
          /\ ret[2] = LeafWalk(leaf)[2]
          /\ pos = LeafWalk(leaf)[1]

\* C14 happens: the schema [u8, bool, u16] against 0, 1, 2, 3 gives
\* ("[0]", "0"), ("[1]", "true"), ("[2]", "770").
C14_Witness ==
    /\ pc = "returned"
    /\ schema = schema_u8_bool_u16
    /\ vec = <<0, 1, 2, 3>>
    /\ ret = Ok(<< <<<<"[", "0", "]">>, <<"0">>>>,
                   <<<<"[", "1", "]">>, chars_true>>,
                   <<<<"[", "2", "]">>, <<"7", "7", "0">>>> >>)

\* The leaves under a schema node, each as <<qualified name, type>>:
\* parent.child_name for a named node, parent[index] for an unnamed one,
\* the parent of a root node being empty.
RECURSIVE QualifiedLeaves(_, _, _)
QualifiedLeaves(node, parent, index) ==
    LET own == IF node.argument_name[1] = "String"
               THEN node.argument_name[2] ELSE <<>>
        qualified ==
            IF own = <<>> THEN parent \o <<"[", DigitChar(index), "]">>
            ELSE IF parent = <<>> THEN own
            ELSE parent \o <<".">> \o own
    IN  IF node.argument_type[1] = "String"
        THEN <<<<qualified, node.argument_type[2]>>>>
        ELSE FlatSeq([k \in 1..Len(node.argument_type[2]) |->
                         QualifiedLeaves(node.argument_type[2][k],
                                         qualified, k - 1)])

\* The leaves of a schema: of every root node of an array, or of the one
\* node, taken as root 0.
SchemaLeaves(sch) ==
    IF sch[1] = "Array"
    THEN FlatSeq([k \in 1..Len(sch[2]) |->
                     QualifiedLeaves(sch[2][k], <<>>, k - 1)])
    ELSE QualifiedLeaves(sch[2], <<>>, 0)

\* How many entries of the sequence are x.
Occurrences(seq, x) == Cardinality({k \in 1..Len(seq) : seq[k] = x})

\* C15: when flattening ends, the flat list holds every leaf of the
\* schema once, under the qualified name built from its parent's
\* qualified name and its own argument_name.
C15_QualifiedNames ==
    pc = "decode"
    => LET leaves == SchemaLeaves(schema)
       IN  /\ Len(data_types) = Len(leaves)
           /\ \A k \in 1..Len(leaves) :
                 Occurrences(data_types, leaves[k])
                     = Occurrences(leaves, leaves[k])

\* C15 happens: Person{name, balance, friends{unnamed}} gives Person.name,
\* Person.balance, Person.friends[0].
C15_Witness ==
    /\ pc = "decode"
    /\ schema = schema_Person
    /\ Len(data_types) = 3
    /\ data_types[1][1] =
          <<"P", "e", "r", "s", "o", "n", ".", "n", "a", "m", "e">>
    /\ data_types[2][1] =
          <<"P", "e", "r", "s", "o", "n", ".", "b", "a", "l", "a", "n", "c", "e">>
    /\ data_types[3][1] =
          <<"P", "e", "r", "s", "o", "n", ".", "f", "r", "i", "e", "n", "d", "s",
            "[", "0", "]">>

\* No call panics: the cursor of structured decoding stays within the
\* buffer, so the slice of line 259 is always in range, and every finished
\* call has returned an Ok or an Err.
NeverPanics ==
    /\ pc # "panicked"
    /\ pc = "decode" => pos <= Len(vec)
    /\ pc = "encoded" => IsOk(encoded) \/ IsErr(encoded)
    /\ pc \in {"decoded", "decoded past"} => IsOk(decoded) \/ IsErr(decoded)
    /\ pc = "returned" => IsOk(ret) \/ IsErr(ret)

\* C16: no call panics, and no call yields a partial result: an Ok of
\* parse_call_result_from_schema is complete, holding the pair of every
\* leaf of the flattened schema, in order.
C16_NoPanicNoPartialResult ==
    /\ NeverPanics
    /\ (pc = "returned" /\ IsOk(ret))
       => [k \in 1..Len(ret[2]) |-> ret[2][k][1]]
              = [k \in 1..Len(data_types) |-> data_types[k][1]]

\* The type of the list that the argument's type string names, if any.
HitType ==
    MatchType(serialize_call_args,
              sanitize_argument_type(arg.argument_type[2]))

\* A string-valued argument has been encoded at a type of the list.
EncodedAtHit ==
    /\ pc = "encoded"
    /\ StringValued
    /\ IsOk(encoded)
    /\ IsSome(HitType)

\* The bytes the encoder gives the document j at the type t.
BytesAt(t, j) == serialize_primitive_argument_value(j, UserName(t))[2][2]

\* The tag 0 alone for null, the tag 1 and the bytes at t otherwise.
Framed(t, j) == IF j = J_null THEN <<0>> ELSE <<1>> \o BytesAt(t, j)

\* C17: Option<T> encodes null to the byte 0 and a present value to the
\* byte 1 followed by the value's encoding at T (T a primitive or a Vec);
\* each element of a Vec<Option<T>> is framed the same way after the count.
C17_OptionFraming ==
    EncodedAtHit
    => LET t == HitType[2]
           j == arg.argument_value[2]
       IN  /\ t[1] = "Option" => encoded[2] = Framed(t[2], j)
           /\ (t[1] = "Vec" /\ t[2][1] = "Option")
              => SubSeq(encoded[2], 5, Len(encoded[2]))
                    = FlatSeq([k \in 1..Len(j[2]) |->
                                  Framed(t[2][2], j[2][k])])

\* C17 happens: Option<u8> with 5 has been encoded to the two bytes 1, 5.
C17_Witness ==
    /\ EncodedAtHit
    /\ arg = Leaf(UserName(T_Option(T_int(FALSE, 8))), Num(<<5>>))
    /\ encoded = Ok(<<1, 5>>)

\* A count or length below 65536 as a little-endian u32.
Prefix(n) == <<n % 256, n \div 256, 0, 0>>

\* C18: a Vec<T> encodes to its element count as four little-endian bytes
\* followed by the encodings of its elements at T, one after the other
\* (T itself a Vec in a Vec<Vec<T>>), and a String to its byte length as
\* four little-endian bytes followed by its UTF-8 bytes.
C18_VecAndStringFraming ==
    EncodedAtHit
    => LET t == HitType[2]
           j == arg.argument_value[2]
       IN  /\ t[1] = "Vec"
              => encoded[2]
                    = Prefix(Len(j[2]))
                      \o FlatSeq([k \in 1..Len(j[2]) |-> BytesAt(t[2], j[2][k])])
           /\ t[1] = "String"
              => LET raw == FlatSeq([k \in 1..Len(j[2]) |-> Utf8(j[2][k])])
                 IN  encoded[2] = Prefix(Len(raw)) \o raw

\* C18 happens: Vec<u8> with [0] has been encoded to 1, 0, 0, 0, 0.
C18_Witness ==
    /\ EncodedAtHit
    /\ arg = Leaf(UserName(T_Vec(T_int(FALSE, 8))), J_arr(<<Num(<<0>>)>>))
    /\ encoded = Ok(<<1, 0, 0, 0, 0>>)

\* Pairwise coprime moduli whose product is above 2^130: two numbers below
\* 2^130 that agree modulo each of them are equal.
Moduli == {4194301, 4194287, 4194277, 4194271, 4194247, 4194217, 4194199}

\* The number with the decimal digits, most significant first, modulo m.
RECURSIVE ModDigits(_, _)
ModDigits(digits, m) ==
    IF digits = <<>> THEN 0
    ELSE (ModDigits(SubSeq(digits, 1, Len(digits) - 1), m) * 10
          + digits[Len(digits)]) % m

\* The number with the bytes, least significant first, modulo m.
RECURSIVE ModBytes(_, _)
ModBytes(bytes, m) ==
    IF bytes = <<>> THEN 0
    ELSE (ModBytes(Tail(bytes), m) * 256 + bytes[1]) % m

\* The bytes are the little-endian two's complement, at their own width,
\* of the integer of the sign and the decimal digits.
Represents(bytes, neg, digits) ==
    \A m \in Moduli :
        IF neg
        THEN (ModBytes(bytes, m) + ModDigits(digits, m)) % m
                = ModBytes([k \in 1..(Len(bytes) + 1) |->
                               IF k = Len(bytes) + 1 THEN 1 ELSE 0], m)
        ELSE ModBytes(bytes, m) = ModDigits(digits, m)

\* The digit a character spells.
DigitOf(c) == CHOOSE d \in 0..9 : DigitChar(d) = c

\* The type of the decoder's list that the decoded type string names.
DecodedType ==
    MatchType(deserialize_call_args, sanitize_argument_type(dtype))

\* C19: an integer encodes to the little-endian bytes of its value at the
\* width of its type and a bool to one byte, 0 or 1; decoding a buffer
\* that holds the width of an integer type renders the decimal of the
\* little-endian value of its first bytes (negative exactly when the type
\* is signed and the top bit is set), and a byte 0 or 1 as false or true.
C19_LittleEndianFixedWidth ==
    /\ EncodedAtHit
       => LET t == HitType[2]
              j == arg.argument_value[2]
          IN  /\ t[1] = "int"
                 => /\ Len(encoded[2]) = t[3] \div 8
                    /\ Represents(encoded[2], j[2], j[3])
              /\ t[1] = "bool" => encoded[2] = <<(IF j[2] THEN 1 ELSE 0)>>
    /\ (pc = "decoded" /\ IsSome(DecodedType))
       => LET t == DecodedType[2]
          IN  /\ (t[1] = "int" /\ Len(vec) >= t[3] \div 8)
                 => /\ IsOk(decoded)
                    /\ LET bytes == SubSeq(vec, 1, t[3] \div 8)
                           neg == decoded[2][1] = "-"
                           chars == IF neg THEN Tail(decoded[2]) ELSE decoded[2]
                           digits == [k \in 1..Len(chars) |-> DigitOf(chars[k])]
                       IN  /\ neg <=> (t[2] /\ bytes[Len(bytes)] >= 128)
                           /\ Len(digits) >= 1
                           /\ Len(digits) > 1 => digits[1] # 0
                           /\ Represents(bytes, neg, digits)
              /\ (t[1] = "bool" /\ Len(vec) >= 1 /\ vec[1] \in {0, 1})
                 => decoded = Ok(IF vec[1] = 1 THEN <<"t", "r", "u", "e">>
                                 ELSE <<"f", "a", "l", "s", "e">>)

\* C19 happens: the buffer 0, 1, 2, 3 has been decoded as u32 and rendered
\* as 50462976.
C19_Witness ==
    /\ pc = "decoded"
    /\ dtype = <<"u", "3", "2">>
    /\ vec = <<0, 1, 2, 3>>
    /\ decoded = Ok(<<"5", "0", "4", "6", "2", "9", "7", "6">>)

\* u32 with 4294967295 has been encoded to four bytes.
EncodedMaxU32 ==
    /\ EncodedAtHit
    /\ arg = Leaf(<<"u", "3", "2">>, Num(<<4, 2, 9, 4, 9, 6, 7, 2, 9, 5>>))
    /\ encoded = Ok(<<255, 255, 255, 255>>)

\* The document is a JSON array of n numbers, each a u8.
IsByteArray(j, n) ==
    /\ j[1] = "arr"
    /\ Len(j[2]) = n
    /\ \A k \in 1..n :
          /\ j[2][k][1] = "num"
          /\ ~j[2][k][2]
          /\ Len(j[2][k][3]) <= 3
          /\ ModDigits(j[2][k][3], 1000) <= 255

\* The numbers of such an array, one byte each.
RawBytes(j) == [k \in 1..Len(j[2]) |-> ModDigits(j[2][k][3], 1000)]

\* C20: [u8;N] (N 32 or 64) encodes a JSON array of N bytes to exactly
\* those N bytes, with no prefix and no tag, and rejects every other
\* document, an array of another count among them; Option<[u8;N]> encodes
\* null to the tag byte 0 and such an array to the tag byte 1 followed by
\* the N bytes.
C20_FixedArrays ==
    (pc = "encoded" /\ StringValued /\ IsSome(HitType))
    => LET t == HitType[2]
           j == arg.argument_value[2]
       IN  /\ t[1] = "Array"
              => IF IsByteArray(j, t[2])
                 THEN encoded = Ok(RawBytes(j)) /\ Len(encoded[2]) = t[2]
                 ELSE IsErr(encoded)
           /\ t[1] = "OptionArray"
              => IF j = J_null THEN encoded = Ok(<<0>>)
                 ELSE IF IsByteArray(j, t[2])
                      THEN /\ encoded = Ok(<<1>> \o RawBytes(j))
                           /\ Len(encoded[2]) = t[2] + 1
                      ELSE IsErr(encoded)

\* C20 happens: [u8;32] with the array 1, 2, ..., 9, 0, 1, ... has been
\* encoded to those 32 bytes.
C20_Witness ==
    /\ pc = "encoded"
    /\ arg = Leaf(UserName(T_Array(32)), J_arr([k \in 1..32 |-> Num(<<k % 10>>)]))
    /\ encoded = Ok([k \in 1..32 |-> k % 10])

\* An array of 31 elements has been rejected at [u8;32], and an array of
\* 64 at Option<[u8;64]> encoded to the tag and 64 bytes.
FixedArrayCases ==
    \/ /\ pc = "encoded"
       /\ arg = Leaf(UserName(T_Array(32)), Rep(Num(<<2>>), 31))
       /\ IsErr(encoded)
    \/ /\ pc = "encoded"
       /\ arg = Leaf(UserName(T_OptionArray(64)), Rep(Num(<<2>>), 64))
       /\ encoded = Ok(<<1>> \o [k \in 1..64 |-> 2])

\* The array literals, [i|u<width>;32|64] alone or wrapped in Option<...>,
\* each with the array-descriptor spelling it is rewritten to.
ArrayLiterals ==
    { << (IF opt THEN kw_Option \o LT ELSE <<>>)
            \o <<"[", sg>> \o Spell(w) \o <<";">> \o Spell(n) \o <<"]">>
            \o (IF opt THEN GT ELSE <<>>),
         (IF opt THEN kw_Option ELSE <<>>)
            \o kw_Array \o LT \o <<sg>> \o Spell(w) \o <<",">> \o Spell(n) \o GT >> :
        opt \in BOOLEAN, sg \in {"u", "i"}, w \in IntWidths, n \in ArrayLens }

\* Normalizing twice is normalizing once, a string and the string without
\* its spaces normalize alike, and an array literal is rewritten to its
\* descriptor.
NormalizeIsIdempotent ==
    pc = "decoded"
    => LET normalized == sanitize_argument_type(dtype)
           stripped == WithoutSpaces(dtype)
       IN  /\ sanitize_argument_type(normalized) = normalized
           /\ sanitize_argument_type(stripped) = normalized
           /\ \A lit \in ArrayLiterals :
                 lit[1] = stripped => normalized = lit[2]

\* C21: normalizing is idempotent, every spacing variant of an array
\* literal normalizes to the literal's array-descriptor spelling, and a
\* string that is no array literal passes through with only its spaces
\* removed.
C21_IdempotentCanonicalization ==
    /\ NormalizeIsIdempotent
    /\ pc = "decoded"
       => LET stripped == WithoutSpaces(dtype)
          IN  (\A lit \in ArrayLiterals : lit[1] # stripped)
              => sanitize_argument_type(dtype) = stripped

\* The normalizer was given [u8;32]> and answered Array<u8,32>>.
UnbalancedLiteralRewritten ==
    /\ pc = "decoded"
    /\ dtype = <<"[", "u", "8", ";", "3", "2", "]", ">">>
    /\ sanitize_argument_type(dtype)
          = kw_Array \o LT \o <<"u", "8", ",", "3", "2">> \o GT \o GT

\* Vec<Vec<Vec<bool>>>
n_VecVecVecBool ==
    kw_Vec \o LT \o kw_Vec \o LT \o kw_Vec \o LT \o kw_bool \o GT \o GT \o GT

\* C22: Vec<Vec<Vec<bool>>> is rejected on both paths: the encoder answers
\* a string-valued argument of that type with the type-not-matched error
\* whatever the value's text, and the decoder answers with an error.
C22_ThreeLevelsRejected ==
    /\ (pc = "encoded" /\ StringValued
          /\ WithoutSpaces(arg.argument_type[2]) = n_VecVecVecBool)
       => encoded = Unmatched(arg.argument_type[2])
    /\ (pc = "decoded" /\ WithoutSpaces(dtype) = n_VecVecVecBool)
       => IsErr(decoded)

\* C22 happens: the encoder has rejected Vec<Vec<Vec<bool>>> with a value
\* that is the well-formed text [[[true]]].
C22_Witness ==
    /\ pc = "encoded"
    /\ arg = Leaf(n_VecVecVecBool,
                  J_arr(<<J_arr(<<J_arr(<<J_bool(TRUE)>>)>>)>>))
    /\ encoded = Unmatched(n_VecVecVecBool)

\* The decoder has rejected Vec<Vec<Vec<bool>>>.
ThreeLevelsNotDecoded ==
    /\ pc = "decoded"
    /\ dtype = n_VecVecVecBool
    /\ IsErr(decoded)

\* The parts one after the other with ", " between them.
RECURSIVE Separated(_)
Separated(parts) ==
    IF Len(parts) <= 1 THEN FlatSeq(parts)
    ELSE LET h == Len(parts) \div 2
         IN  Separated(SubSeq(parts, 1, h)) \o <<",", " ">>
             \o Separated(SubSeq(parts, h + 1, Len(parts)))

\* The text of the value that the document j spells at the type t: decimal
\* integers, true or false, a string between double quotes (a quote inside
\* it escaped), "[e1, e2, ...]" for a vector or a fixed array, None for an
\* absent option, and for a present option the inner text, inside Some(...)
\* when wrapped.
RECURSIVE Rendering(_, _, _)
Rendering(t, j, wrapped) ==
    CASE t[1] = "int" ->
            (IF j[2] THEN <<"-">> ELSE <<>>)
            \o [k \in 1..Len(j[3]) |->
                   <<"0", "1", "2", "3", "4", "5", "6", "7", "8", "9">>[j[3][k] + 1]]
      [] t[1] = "bool" ->
            IF j[2] THEN <<"t", "r", "u", "e">> ELSE <<"f", "a", "l", "s", "e">>
      [] t[1] = "String" ->
            <<"\"">>
            \o FlatSeq([k \in 1..Len(j[2]) |->
                           IF j[2][k] = "\"" THEN <<"\\", "\"">> ELSE <<j[2][k]>>])
            \o <<"\"">>
      [] t[1] = "Vec" ->
            <<"[">>
            \o Separated([k \in 1..Len(j[2]) |-> Rendering(t[2], j[2][k], wrapped)])
            \o <<"]">>
      [] t[1] = "Array" ->
            <<"[">>
            \o Separated([k \in 1..Len(j[2]) |->
                             Rendering(T_int(FALSE, 8), j[2][k], wrapped)])
            \o <<"]">>
      [] t[1] \in {"Option", "OptionArray"} ->
            LET inner == IF t[1] = "Option" THEN t[2] ELSE T_Array(t[2])
                text == Rendering(inner, j, wrapped)
            IN  IF j = J_null THEN <<"N", "o", "n", "e">>
                ELSE IF wrapped THEN <<"S", "o", "m", "e", "(">> \o text \o <<")">>
                ELSE text

\* The bytes of an encoded string-valued argument have been decoded at the
\* argument's type, with success.
DecodedEncoded ==
    /\ pc = "decoded"
    /\ StringValued
    /\ IsOk(encoded)
    /\ IsOk(decoded)
    /\ IsSome(DecodedType)

\* C23, amended: the direct decoder renders integers in decimal, booleans
\* as true or false, strings in double quotes, vectors and fixed arrays as
\* "[e1, e2, ...]", an absent option as None and a present option as
\* Some(...) around the inner value's rendering.
C23_Rendering ==
    DecodedEncoded
    => decoded[2] = Rendering(DecodedType[2], arg.argument_value[2], TRUE)

\* C23 happens: the bytes of a Vec<Option<u8>> with [0, null] have been
\* rendered as [Some(0), None].
C23_Witness ==
    /\ DecodedEncoded
    /\ arg = Leaf(UserName(T_Vec(T_Option(T_int(FALSE, 8)))),
                  J_arr(<<Num(<<0>>), J_null>>))
    /\ decoded = Ok(<<"[", "S", "o", "m", "e", "(", "0", ")", ",", " ",
                      "N", "o", "n", "e", "]">>)

\* C23 as stated: a present option is rendered as the inner value's
\* rendering alone.
C23_OptionRendersInner ==
    DecodedEncoded
    => decoded[2] = Rendering(DecodedType[2], arg.argument_value[2], FALSE)

\* call_arguments_from_json_value has returned for a document whose
\* arguments field is an array.
CalledOnArray == pc = "called" /\ json_val.arguments[1] = "Array"

\* C24: for a document with an arguments array, when every element
\* encodes the call returns one buffer per element, in the same order,
\* each the encoding of that element alone; otherwise it returns the error
\* of the first element that fails, and no buffers.
C24_OneBufferPerArgument ==
    CalledOnArray
    => LET elems == json_val.arguments[2]
           alone == [k \in 1..Len(elems) |->
                        parse_json_argument_type_value(elems[k])]
       IN  IF \A k \in 1..Len(elems) : IsOk(alone[k])
           THEN /\ IsOk(arguments)
                /\ Len(arguments[2]) = Len(elems)
                /\ \A k \in 1..Len(elems) : arguments[2][k] = alone[k][2]
           ELSE /\ IsErr(arguments)
                /\ \E k \in 1..Len(elems) :
                      /\ arguments = alone[k]
                      /\ \A i \in 1..(k - 1) : IsOk(alone[i])

\* C24 happens: 45 arguments in, 45 buffers out, the last of 16 bytes.
C24_Witness ==
    /\ CalledOnArray
    /\ Len(json_val.arguments[2]) = 45
    /\ IsOk(arguments)
    /\ Len(arguments[2]) = 45
    /\ Len(arguments[2][45]) = 16

\* A document whose second argument fails has returned that error.
SecondArgumentFailed ==
    /\ CalledOnArray
    /\ json_val.arguments[2] = <<leaf_u8, Leaf(n_u8, Num(<<2, 5, 6>>))>>
    /\ IsErr(arguments)

\* The qualified name of a schema node under a parent's qualified name.
Qualified(node, parent, index) ==
    LET own == IF node.argument_name[1] = "String"
               THEN node.argument_name[2] ELSE <<>>
    IN  IF own = <<>> THEN parent \o <<"[", DigitChar(index), "]">>
        ELSE IF parent = <<>> THEN own
        ELSE parent \o <<".">> \o own

\* The nodes of nesting depth 0, each with its qualified name.
Roots(sch) ==
    IF sch[1] = "Array"
    THEN [k \in 1..Len(sch[2]) |->
             [node |-> sch[2][k], name |-> Qualified(sch[2][k], <<>>, k - 1)]]
    ELSE <<[node |-> sch[2], name |-> Qualified(sch[2], <<>>, 0)]>>

\* The leaves of the nodes of one depth, in the order of the nodes, followed
\* by those of the next depth: the children of the groups, group after
\* group in the order of the groups, in declaration order within a group.
RECURSIVE LevelOrder(_)
LevelOrder(level) ==
    IF level = <<>> THEN <<>>
    ELSE LET leaves == SelectSeq(level,
                           LAMBDA e : e.node.argument_type[1] = "String")
             groups == SelectSeq(level,
                           LAMBDA e : e.node.argument_type[1] = "Array")
             children(g) == g.node.argument_type[2]
             deeper ==
                 FlatSeq([i \in 1..Len(groups) |->
                    [k \in 1..Len(children(groups[i])) |->
                        [node |-> children(groups[i])[k],
                         name |-> Qualified(children(groups[i])[k],
                                            groups[i].name, k - 1)]]])
         IN  [k \in 1..Len(leaves) |->
                 <<leaves[k].name, leaves[k].node.argument_type[2]>>]
             \o LevelOrder(deeper)

\* C25: the flat list is the breadth-first order of the schema's leaves
\* (every leaf of depth d before every leaf of depth d+1, leaves of one
\* depth in the order their parents were visited and in declaration order
\* within a parent), and while the schema is being flattened no byte of
\* the buffer has been read: the cursor is 0 and no leaf is decoded.
C25_BreadthFirstBeforeDecoding ==
    /\ pc = "decode" => data_types = LevelOrder(Roots(schema))
    /\ pc = "flatten" => pos = 0 /\ leaf = 0 /\ result = <<>>

\* C25 happens: of the schema [b{ {a: u16}, u8 }, u8] the leaf of depth 0
\* comes first, then the one of depth 1, then the one of depth 2.
C25_Witness ==
    /\ pc = "decode"
    /\ schema = <<"Array",
                  << GroupNode(nm_b, <<GroupNode(V_Null, <<LeafNode(nm_a, n_u16)>>),
                                       LeafNode(V_Null, n_u8)>>),
                     LeafNode(V_Null, n_u8) >>>>
    /\ data_types = << <<<<"[", "1", "]">>, n_u8>>,
                       <<<<"b", "[", "1", "]">>, n_u8>>,
                       <<<<"b", "[", "0", "]", ".", "a">>, n_u16>> >>

\* The error of a field that is missing.
Missing(field) == Err(MissingFieldinJson, <<field>>)

\* C26: a document whose arguments field is no array yields
\* MissingFieldinJson("arguments"); an argument whose argument_type is no
\* string yields MissingFieldinJson("argument_type") whatever its
\* argument_value; and a Custom or Vec<Custom> argument yields the outcome
\* of its first child that fails, so that error of a child, itself an
\* argument, comes out from any depth.
C26_MissingFields ==
    /\ (pc = "called" /\ json_val.arguments[1] # "Array")
       => arguments = Missing("arguments")
    /\ (pc = "encoded" /\ ~TypeIsString) => encoded = Missing("argument_type")
    /\ (pc = "encoded" /\ ArrayValued
          /\ IsSome(is_custom(arg.argument_type[2])))
       => LET children == arg.argument_value[2]
              alone == [k \in 1..Len(children) |->
                           parse_json_argument_type_value(children[k])]
          IN  \A k \in 1..Len(children) :
                 /\ children[k].argument_type[1] # "String"
                    => alone[k] = Missing("argument_type")
                 /\ (IsErr(alone[k]) /\ \A i \in 1..(k - 1) : IsOk(alone[i]))
                    => encoded = alone[k]

\* C26 happens: a Custom in a Custom holds a child with no argument_type
\* and a null argument_value, and the encoder has answered with the
\* missing field.
C26_Witness ==
    /\ pc = "encoded"
    /\ arg = Custom(<<Custom(<<Arg(V_Null, V_Null)>>)>>)
    /\ encoded = Missing("argument_type")

\* A document with a null arguments field has been answered with the
\* missing field.
ArgumentsFieldMissing ==
    /\ pc = "called"
    /\ json_val = Document(V_Null)
    /\ arguments = Missing("arguments")

\* The number of bytes that the value of type t at the start of buf takes,
\* for a buf that holds such a value.
RECURSIVE SizeAt(_, _)
RECURSIVE SizeOfElements(_, _, _)
SizeAt(t, buf) ==
    CASE t[1] = "int" -> t[3] \div 8
      [] t[1] = "bool" -> 1
      [] t[1] = "String" -> 4 + buf[1] + 256 * buf[2]
      [] t[1] = "Vec" ->
            4 + SizeOfElements(t[2], SubSeq(buf, 5, Len(buf)),
                               buf[1] + 256 * buf[2])
      [] t[1] = "Option" ->
            IF buf[1] = 0 THEN 1
            ELSE 1 + SizeAt(t[2], SubSeq(buf, 2, Len(buf)))
      [] t[1] = "Array" -> t[2]
      [] t[1] = "OptionArray" -> IF buf[1] = 0 THEN 1 ELSE 1 + t[2]
SizeOfElements(t, buf, count) ==
    IF count = 0 THEN 0
    ELSE LET first == SizeAt(t, buf)
         IN  first + SizeOfElements(t, SubSeq(buf, first + 1, Len(buf)),
                                    count - 1)

\* A step of the decode loop moves the cursor forward, by the size of the
\* value when it has pushed a pair and not at all otherwise (the leaf
\* failed or its type is unmatched, or the loop has ended).
CursorStep ==
    pc = "decode"
    => /\ pos' >= pos
       /\ IF result' # result
          THEN LET ty == data_types[leaf + 1][2]
                   t == MatchType(deserialize_call_args,
                                  sanitize_argument_type(ty))[2]
               IN  pos' = pos + SizeAt(t, SubSeq(vec, pos + 1, Len(vec)))
          ELSE pos' = pos

\* C27: during structured decoding the cursor is within the buffer, never
\* decreases, advances by exactly the bytes that a successful leaf decode
\* consumed, and is left unchanged by a leaf decode that fails or whose
\* type is unmatched.
C27_CursorWithinBufferAndMonotone ==
    /\ [](pc \in {"flatten", "decode", "returned"}
            => 0 <= pos /\ pos <= Len(vec))
    /\ [][CursorStep]_vars

\* C27 happens: over the buffer 1, 0, 0, 0, 7, 2 a Vec<u8> leaf has taken
\* the cursor from 0 to 5 and an unmatched leaf has left it there.
C27_Witness ==
    /\ pc = "decode"
    /\ vec = <<1, 0, 0, 0, 7, 2>>
    /\ schema = <<"Array", <<LeafNode(nm_b, kw_Vec \o LT \o n_u8 \o GT),
                             LeafNode(V_Null, n_foo)>>>>
    /\ leaf = 2
    /\ pos = 5

\* The document has the shape of the type t and an integer in it, at the
\* top or as an element, lies outside the range of its integer type.
RECURSIVE OutOfRange(_, _)
OutOfRange(t, j) ==
    CASE t[1] = "int" -> j[1] = "num" /\ ~InRange(t, j[2], j[3])
      [] t[1] = "Vec" ->
            j[1] = "arr" /\ \E k \in 1..Len(j[2]) : OutOfRange(t[2], j[2][k])
      [] t[1] = "Option" -> j # J_null /\ OutOfRange(t[2], j)
      [] t[1] \in {"Array", "OptionArray"} ->
            /\ j[1] = "arr"
            /\ \E k \in 1..Len(j[2]) : OutOfRange(T_int(FALSE, 8), j[2][k])
      [] OTHER -> FALSE

\* C28: integer text outside the range of the declared integer type, at
\* the top or as an element of a Vec, an Option or a fixed byte array, is
\* rejected with FailToSerializeCallArgument: no bytes come out.
C28_OutOfRangeRejected ==
    (pc = "encoded" /\ StringValued /\ IsSome(HitType)
       /\ OutOfRange(HitType[2], arg.argument_value[2]))
    => /\ IsErr(encoded)
       /\ encoded[2] = FailToSerializeCallArgument

\* C28 happens: i8 with 128 has been rejected.
C28_Witness ==
    /\ pc = "encoded"
    /\ arg = Leaf(<<"i", "8">>, Num(<<1, 2, 8>>))
    /\ IsErr(encoded)
    /\ encoded[2] = FailToSerializeCallArgument

\* u8 with 256, u32 with -1, a Vec<u8> with [0, 256], an Option<u8> with
\* 256 or a [u8;32] whose last element is 256 has been rejected.
OutOfRangeCases ==
    /\ pc = "encoded"
    /\ IsErr(encoded)
    /\ arg \in { Leaf(n_u8, Num(<<2, 5, 6>>)),
                  Leaf(<<"u", "3", "2">>, Neg(<<1>>)),
                  Leaf(kw_Vec \o LT \o n_u8 \o GT,
                       J_arr(<<Num(<<0>>), Num(<<2, 5, 6>>)>>)),
                  Leaf(kw_Option \o LT \o n_u8 \o GT, Num(<<2, 5, 6>>)),
                  Leaf(UserName(T_Array(32)),
                       J_arr([k \in 1..32 |->
                                 IF k = 32 THEN Num(<<2, 5, 6>>)
                                 ELSE Num(<<k % 10>>)])) }

\* The node, or a node under it, has an argument_type that is neither a
\* string nor an array.
RECURSIVE HasOtherTyped(_)
HasOtherTyped(node) ==
    CASE node.argument_type[1] = "String" -> FALSE
      [] node.argument_type[1] = "Array" ->
            \E k \in 1..Len(node.argument_type[2]) :
                HasOtherTyped(node.argument_type[2][k])
      [] OTHER -> TRUE

\* The schema of the call has such a node.
SchemaHasOtherTyped ==
    /\ schema # Nothing
    /\ IF schema[1] = "Array"
       THEN \E k \in 1..Len(schema[2]) : HasOtherTyped(schema[2][k])
       ELSE HasOtherTyped(schema[2])

\* C29: with a schema node, at any depth, whose argument_type is neither a
\* string nor an array, parse_call_result_from_schema never starts to
\* decode and returns the error of flattening, with no pair made and no
\* byte read.
C29_OtherTypedNodeFails ==
    SchemaHasOtherTyped
    => /\ pc # "decode"
       /\ pc = "returned"
          => /\ ret = Err(FailToParseCallArguments, <<"">>)
             /\ result = <<>>
             /\ leaf = 0
             /\ pos = 0

\* C29 happens: the schema [u8, a{ { b: <number> } }] over the buffer
\* 1, 5, 0, whose first leaf decodes, has returned the error.
C29_Witness ==
    /\ pc = "returned"
    /\ vec = <<1, 5, 0>>
    /\ schema = <<"Array",
                  << LeafNode(V_Null, n_u8),
                     GroupNode(nm_a,
                         <<GroupNode(V_Null, <<Node(nm_b, <<"Number">>)>>)>>) >>>>
    /\ data_types = << <<<<"[", "0", "]">>, n_u8>> >>
    /\ IsErr(ret)

\* The number of nodes, and of nodes whose argument_type is a string, at
\* and under a schema node.
RECURSIVE NodeCount(_, _)
NodeCount(node, leavesOnly) ==
    LET self == IF leavesOnly /\ node.argument_type[1] # "String" THEN 0 ELSE 1
        ty == node.argument_type
        under == IF ty[1] = "Array"
                 THEN [k \in 1..Len(ty[2]) |-> NodeCount(ty[2][k], leavesOnly)]
                 ELSE <<>>
        Sum[k \in 0..Len(under)] ==
            IF k = 0 THEN 0 ELSE Sum[k - 1] + under[k]
    IN  self + Sum[Len(under)]

\* The same of a schema.
SchemaCount(sch, leavesOnly) ==
    IF sch[1] = "Array"
    THEN NodeCount(GroupNode(V_Null, sch[2]), leavesOnly)
         - (IF leavesOnly THEN 0 ELSE 1)
    ELSE NodeCount(sch[2], leavesOnly)

\* C30: flattening terminates, in the decode loop or in the error of a
\* node that is neither leaf nor group; when it ends without that error
\* the queue is empty, the loop has taken one turn per node of the schema
\* and the flat list has one entry per node whose argument_type is a
\* string, none for a group.
C30_FlatteningTerminates ==
    /\ (pc = "flatten") ~> (pc \in {"decode", "returned"})
    /\ [](pc = "decode"
            => /\ values = <<>>
               /\ dequeued = SchemaCount(schema, FALSE)
               /\ Len(data_types) = SchemaCount(schema, TRUE))

\* C30 happens: of the schema [a{ b: u8, bool }, {}] four nodes have been
\* dequeued and two entries made.
C30_Witness ==
    /\ pc = "decode"
    /\ schema = <<"Array",
                  << GroupNode(nm_a, <<LeafNode(nm_b, n_u8),
                                       LeafNode(V_Null, kw_bool)>>),
                     GroupNode(V_Null, <<>>) >>>>
    /\ values = <<>>
    /\ dequeued = 4
    /\ Len(data_types) = 2
====
